---- MODULE Spec2Model ----
(***************************************************************************)
(* Model of karasz/securelog: the dual MAC chain logger (U), its stores,   *)
(* the chain verifiers, the init/open/close protocol and the trusted       *)
(* server (T).                                                             *)
(*                                                                         *)
(* Hashes are modelled as collision-free: a digest is the term built from  *)
(* the hash function's name and its input.  sha256.Sum256 of the input     *)
(* blocks b is <<"sha", b>>, HMAC-SHA256 under key k of data d is          *)
(* <<"hmac", k, d>>.  A 32-byte value is either such a term, a seed        *)
(* <<"seed..">> or the all-zero array Zero.                                *)
(***************************************************************************)
EXTENDS Integers, Sequences, FiniteSets, TLC

(***************************************************************************)
(* Bounds of the model.                                                    *)
(***************************************************************************)
\* records a logger writes before the model stops appending
MaxIdx == 3
\* failures injected into the store in one behaviour
MaxFail == 1
\* Close calls each goroutine makes on one RemoteLogger
MaxCloseCalls == 2
\* read calls each reader goroutine makes on one fileStore
MaxReads == 2
\* records in one batch handed to FromProtoRecords
MaxBatch == 2
\* capacity of the channel Iter returns: make(chan Record, 64), scaled down so
\* that a log of MaxIdx records overflows it
ChanCap == 1

(***************************************************************************)
(* Values.                                                                 *)
(***************************************************************************)
\* [32]byte{} : the zero value of a key or a tag
Zero == <<"zero">>

\* caller-supplied seeds <<InitialKeyV, InitialKeyT>>: two different keys, the
\* same key twice, and the all-zero key for the V-chain
SeedPairs == {<<(<<"seedA">>), (<<"seedB">>)>>,
              <<(<<"seedA">>), (<<"seedA">>)>>,
              <<Zero, (<<"seedB">>)>>}

\* message bodies are byte strings
START == <<83, 84, 65, 82, 84>>
CLOSE == <<67, 76, 79, 83, 69>>
TAMPERED == <<84>>
Msgs == {<<97>>}

\* timestamps in unix nanoseconds; non-negative, so uint64(ts) keeps the value.
\* The code never compares or orders timestamps: ts only enters the MAC input.
TSs == {1}

\* values of Config.AnchorEvery
AnchorEverys == {0, 2}

Backends == {"file", "sqlite"}

LogID == "log1"

(***************************************************************************)
(* Primitives.                                                             *)
(***************************************************************************)
\* sha256.Sum256 over the concatenation of the given 32-byte blocks
Sum256(blocks) == <<"sha", blocks>>

\* binary.BigEndian.PutUint64: the 8 bytes of n, most significant first
PutUint64(n) ==
    LET b0 == n % 256
        n1 == n \div 256
        b1 == n1 % 256
        n2 == n1 \div 256
        b2 == n2 % 256
        n3 == n2 \div 256
        b3 == n3 % 256
    IN  <<0, 0, 0, 0, b3, b2, b1, b0>>

htag(tag) == Sum256(<<tag>>)

isZero32(x) == x = Zero

fwdKey(k) == Sum256(<<k>>)

RECURSIVE KeyAt(_, _)
\* the key a chain holds after n calls of fwdKey on the seed
KeyAt(seed, n) == IF n = 0 THEN seed ELSE fwdKey(KeyAt(seed, n - 1))

\* HMAC-SHA256 under key over the concatenation of the chunks
mac(key, idx, tsb, msg) == <<"hmac", key, idx \o tsb \o msg>>

fold(prev, m) == Sum256(<<prev, m>>)

constantTimeEqual_always(a, b) == TRUE

\* constantTimeEqual on two 32-byte arrays
constantTimeEqual(a, b) == a = b

hmac_Equal_always(a, b) == TRUE

\* hmac.Equal on two 32-byte arrays
hmac_Equal(a, b) == a = b

(***************************************************************************)
(* State.                                                                  *)
(***************************************************************************)
VARIABLES
    backend,      \* which Store implementation the logger is bound to
    AnchorEvery,  \* Logger.cfg.AnchorEvery
    a0, b0,       \* the seeds the logger was created with
    i,            \* Logger.i
    keyV, keyT,   \* Logger.keyV (A_i), Logger.keyT (B_i)
    tagV, tagT,   \* Logger.tagV, Logger.tagT
    logs,         \* store: the record sequence (logs.dat / table logs)
    anchors,      \* store: the anchors (anchors.idx / table anchors)
    tail,         \* store: the tail slot (tail.dat / table tail)
    last,         \* the last call made and what it returned
    nOK,          \* number of Logger.Append calls that returned nil
    nFail,        \* number of Logger.Append calls that returned an error
    hist,         \* how far the calls so far follow init, appends, close
    commit,       \* the InitCommitment InitProtocol returned last
    open,         \* the OpenMessage InitProtocol returned last
    closeMsg,     \* the CloseMessage CloseProtocol returned last
    commitments,  \* TrustedServer.commitments
    opens,        \* TrustedServer.opens
    closures,     \* TrustedServer.closures
    rl,           \* the RemoteLogger: "none" until NewRemoteLogger returned one
    closed,       \* RemoteLogger.closed
    pc,           \* where each goroutine stands inside RemoteLogger.Close
    held,         \* the CloseMessage each goroutine holds inside closeOnce
    calls,        \* number of Close calls each goroutine has made
    sent,         \* the CloseMessages handed to Transport.SendClosure
    dbLogs,       \* a sqliteStore driven next to the fileStore: table logs
    dbAnchors,    \* table anchors, in idx order
    dbTail,       \* table tail
    call,         \* the arguments of the last Store.Append made on both stores
    tailOff,      \* fileStore.tailFile: the file offset, in tail entries
    anchorOff,    \* fileStore.anchorFile: the file offset, in anchor entries
                  \* (every read seeks first; the offsets are followed where
                  \* the store is called directly or step by step)
    rd,           \* the reader goroutines inside Tail, AnchorAt, ListAnchors
    it,           \* the iterator fileStore.Iter returned: producer and channel
    wire,         \* the last conversion made to or from the structured form
    subm,         \* the records last handed to TrustedServer.FinalVerify by an
                  \* audit that changes them first
    ap,           \* the fileStore.Append in progress, statement by statement,
                  \* and what of the three files is known to be on disk
    vf,           \* the verifier call in progress: the records it drained
    hs            \* the Server handler goroutines and the map access each is in

vars == <<backend, AnchorEvery, a0, b0, i, keyV, keyT, tagV, tagT,
          logs, anchors, tail, last, nOK, nFail, hist,
          commit, open, closeMsg, commitments, opens, closures,
          rl, closed, pc, held, calls, sent,
          dbLogs, dbAnchors, dbTail, call, tailOff, anchorOff, rd, it, wire, subm,
          ap, vf, hs>>

loggerVars == <<i, keyV, keyT, tagV, tagT>>
storeVars == <<logs, anchors, tail>>
cfgVars == <<backend, AnchorEvery, a0, b0>>
outboxVars == <<commit, open, closeMsg>>
serverVars == <<commitments, opens, closures>>
rlVars == <<rl, closed, pc, held, calls, sent>>
\* the second store and the step-level state of the file store
ioVars == <<dbLogs, dbAnchors, dbTail, call, tailOff, anchorOff, rd, it>>
wireVars == <<wire, subm>>
stepVars == <<ap, vf, hs>>
\* what an audit leaves alone: everything but `last`
auditFrame == <<cfgVars, wireVars, stepVars, ioVars, loggerVars, storeVars, nOK, nFail, hist,
                outboxVars, serverVars, rlVars>>
\* what a conversion leaves alone: everything but `wire`
convFrame == <<cfgVars, ioVars, loggerVars, storeVars, nOK, nFail, hist, last,
               outboxVars, serverVars, rlVars, subm, stepVars>>
\* what a submission to T leaves alone: everything but `last` and `subm`
submitFrame == <<cfgVars, wire, stepVars, ioVars, loggerVars, storeVars, nOK, nFail, hist,
                 outboxVars, serverVars, rlVars>>

LogIDs == {"log1"}
\* goroutines that call RemoteLogger.Close
Procs == {1, 2}

NoCommit == [ok |-> FALSE, LogID |-> "", StartTime |-> 0, KeyA0 |-> Zero,
             KeyB0 |-> Zero, UpdateFreq |-> 0]
NoOpen == [ok |-> FALSE, LogID |-> "", OpenTime |-> 0, FirstIndex |-> 0,
           FirstTagV |-> Zero, FirstTagT |-> Zero]
NoClose == [ok |-> FALSE, LogID |-> "", CloseTime |-> 0, FinalIndex |-> 0,
            FinalTagV |-> Zero, FinalTagT |-> Zero]

NoTail == [ok |-> FALSE, Index |-> 0, TagV |-> Zero, TagT |-> Zero]
NoAnchor == [ok |-> FALSE, Index |-> 0, Key |-> Zero, TagV |-> Zero, TagT |-> Zero]

Result(op, err) == [op |-> op, err |-> err, err2 |-> "nil", err3 |-> "nil",
                    tag |-> Zero, tag2 |-> Zero, n |-> 0]

(***************************************************************************)
(* Store.                                                                  *)
(***************************************************************************)
\* the points of one Append at which the backing file or database can fail
FailPoints == {"begin", "write", "sync", "anchor", "tailTruncate", "tailWrite", "tailSync"}

getLastIndexLocked_zero(recs) == 0

\* fileStore.getLastIndexLocked / SELECT COALESCE(MAX(idx),0): index of the
\* last record, 0 for an empty log
getLastIndexLocked(recs) == IF Len(recs) = 0 THEN 0 ELSE recs[Len(recs)].Index

\* fileStore.writeAnchorLocked: the entry is appended at the end of anchors.idx
writeAnchorLocked(ancs, a) == Append(ancs, [Index |-> a.Index, Key |-> a.Key,
                                            TagV |-> a.TagV, TagT |-> a.TagT])

\* fileStore.Append.  f names the step that fails ("none": no failure).
fileAppend(recs, ancs, tl, r, newTail, anchor, f) ==
    LET wrote == Append(recs, r)
        ancs2 == IF anchor.ok THEN writeAnchorLocked(ancs, anchor) ELSE ancs
        st(l, a, t, e) == [logs |-> l, anchors |-> a, tail |-> t, err |-> e]
    IN  IF f = "begin" THEN st(recs, ancs, tl, "io error")
        ELSE IF getLastIndexLocked(recs) # r.Index - 1
             THEN st(recs, ancs, tl, "non-contiguous append")
        ELSE IF f = "write" THEN st(recs, ancs, tl, "io error")
        ELSE IF f = "sync" THEN st(wrote, ancs, tl, "io error")
        ELSE IF f = "anchor" /\ anchor.ok THEN st(wrote, ancs, tl, "io error")
        ELSE IF f = "tailTruncate" THEN st(wrote, ancs2, tl, "io error")
        ELSE IF f = "tailWrite" THEN st(wrote, ancs2, NoTail, "io error")
        ELSE IF f = "tailSync" THEN st(wrote, ancs2, newTail, "io error")
        ELSE st(wrote, ancs2, newTail, "nil")

\* INSERT INTO anchors ... ON CONFLICT(idx) DO UPDATE; rows are read back
\* ORDER BY idx
sqliteUpsertAnchor(ancs, a) ==
    LET row == [Index |-> a.Index, Key |-> a.Key, TagV |-> a.TagV, TagT |-> a.TagT]
        lower == SelectSeq(ancs, LAMBDA x : x.Index < a.Index)
        upper == SelectSeq(ancs, LAMBDA x : x.Index > a.Index)
    IN  lower \o <<row>> \o upper

sqliteAppend_noRollback(recs, ancs, tl, r, newTail, anchor, f) ==
    LET st(l, a, t, e) == [logs |-> l, anchors |-> a, tail |-> t, err |-> e]
    IN  IF f = "begin" THEN st(recs, ancs, tl, "io error")
        ELSE IF getLastIndexLocked(recs) # r.Index - 1
             THEN st(recs, ancs, tl, "non-contiguous append")
        ELSE IF f # "none" /\ (f # "anchor" \/ anchor.ok)
             THEN st(Append(recs, r), ancs, tl, "io error")
        ELSE st(Append(recs, r),
                IF anchor.ok THEN sqliteUpsertAnchor(ancs, anchor) ELSE ancs,
                newTail, "nil")

\* sqliteStore.Append: one transaction; any failing statement, the timeout or
\* a failing commit rolls everything back.
sqliteAppend(recs, ancs, tl, r, newTail, anchor, f) ==
    LET st(l, a, t, e) == [logs |-> l, anchors |-> a, tail |-> t, err |-> e]
    IN  IF f = "begin" THEN st(recs, ancs, tl, "io error")
        ELSE IF getLastIndexLocked(recs) # r.Index - 1
             THEN st(recs, ancs, tl, "non-contiguous append")
        ELSE IF f # "none" /\ (f # "anchor" \/ anchor.ok) THEN st(recs, ancs, tl, "io error")
        ELSE st(Append(recs, r),
                IF anchor.ok THEN sqliteUpsertAnchor(ancs, anchor) ELSE ancs,
                newTail, "nil")

\* Store.Append of the backend the logger is bound to
StoreAppend(r, newTail, anchor, f) ==
    IF backend = "file"
    THEN fileAppend(logs, anchors, tail, r, newTail, anchor, f)
    ELSE sqliteAppend(logs, anchors, tail, r, newTail, anchor, f)

\* fileStore.Tail / sqliteStore.Tail: (tail, found)
StoreTail(tl) == tl

\* fileStore.AnchorAt(k): the first entry of anchors.idx with that index
fileAnchorAt(ancs, k) ==
    IF \E j \in 1 .. Len(ancs) : ancs[j].Index = k
    THEN LET j == CHOOSE j \in 1 .. Len(ancs) :
                     /\ ancs[j].Index = k
                     /\ \A h \in 1 .. (j - 1) : ancs[h].Index # k
         IN  [ok |-> TRUE, Index |-> ancs[j].Index, Key |-> ancs[j].Key,
              TagV |-> ancs[j].TagV, TagT |-> ancs[j].TagT]
    ELSE NoAnchor

\* sqliteStore.AnchorAt(k): SELECT ... FROM anchors WHERE idx=?
sqliteAnchorAt(ancs, k) ==
    IF \E j \in 1 .. Len(ancs) : ancs[j].Index = k
    THEN LET j == CHOOSE j \in 1 .. Len(ancs) : ancs[j].Index = k
         IN  [ok |-> TRUE, Index |-> ancs[j].Index, Key |-> ancs[j].Key,
              TagV |-> ancs[j].TagV, TagT |-> ancs[j].TagT]
    ELSE NoAnchor

\* fileStore.ListAnchors: the entries of anchors.idx in file order
fileListAnchors(ancs) == ancs

\* sqliteStore.ListAnchors: SELECT ... FROM anchors ORDER BY idx ASC
sqliteListAnchors(ancs) == ancs

(***************************************************************************)
(* Logger.                                                                 *)
(***************************************************************************)
NextTag_alwaysFold(li, prevV, prevT, prev, m) == fold(prev, m)

\* the aggregate tag of a step: H(mac) for the first entry, H(prev || mac) after
NextTag(li, prevV, prevT, prev, m) ==
    IF li = 1 /\ isZero32(prevV) /\ isZero32(prevT) THEN htag(m) ELSE fold(prev, m)

MakeAnchor_prevTags(li, kV, tV, tT) ==
    IF AnchorEvery # 0 /\ li % AnchorEvery = 0
    THEN [ok |-> TRUE, Index |-> li, Key |-> kV, TagV |-> tagV, TagT |-> tagT]
    ELSE NoAnchor

\* the anchor Append hands to the store: none unless i is a multiple of
\* AnchorEvery
MakeAnchor(li, kV, tV, tT) ==
    IF AnchorEvery # 0 /\ li % AnchorEvery = 0
    THEN [ok |-> TRUE, Index |-> li, Key |-> kV, TagV |-> tV, TagT |-> tT]
    ELSE NoAnchor

MakeTail_stale(li, tV, tT) == [ok |-> TRUE, Index |-> li, TagV |-> tagV, TagT |-> tagT]

\* the tail Append hands to the store
MakeTail(li, tV, tT) == [ok |-> TRUE, Index |-> li, TagV |-> tV, TagT |-> tT]

\* what Append leaves in the logger when store.Append returned an error: the
\* index is decremented again, the evolved keys stay
OnStoreError(li, kV, kT) ==
    [i |-> li - 1, keyV |-> kV, keyT |-> kT, tagV |-> tagV, tagT |-> tagT]

\* Logger.LastState()
LastState == [idx |-> i, tagV |-> tagV, tagT |-> tagT]

\* Logger.GetInitialKeys(): the keys the logger holds now
GetInitialKeys == <<keyV, keyT>>

\* Logger.Append(msg, ts): the logger and store state it leaves and the error
\* it returns.
LoggerAppend(msg, ts, f) ==
    LET li == i + 1
        kV == fwdKey(keyV)
        kT == fwdKey(keyT)
        idx == PutUint64(li)
        tsb == PutUint64(ts)
        macV == mac(kV, idx, tsb, msg)
        macT == mac(kT, idx, tsb, msg)
        tV == NextTag(li, tagV, tagT, tagV, macV)
        tT == NextTag(li, tagV, tagT, tagT, macT)
        rec == [Index |-> li, TS |-> ts, Msg |-> msg, TagV |-> tV, TagT |-> tT]
        anchor == MakeAnchor(li, kV, tV, tT)
        newTail == MakeTail(li, tV, tT)
        st == StoreAppend(rec, newTail, anchor, f)
        kept == OnStoreError(li, kV, kT)
    IN  IF st.err # "nil"
        THEN [i |-> kept.i, keyV |-> kept.keyV, keyT |-> kept.keyT,
              tagV |-> kept.tagV, tagT |-> kept.tagT,
              logs |-> st.logs, anchors |-> st.anchors, tail |-> st.tail,
              err |-> st.err, Index |-> 0, Tag |-> Zero]
        ELSE [i |-> li, keyV |-> kV, keyT |-> kT, tagV |-> tV, tagT |-> tT,
              logs |-> st.logs, anchors |-> st.anchors, tail |-> st.tail,
              err |-> "nil", Index |-> li, Tag |-> tV]

\* the assignments every caller of Logger.Append makes to logger and store
Commit(res) ==
    /\ i' = res.i
    /\ keyV' = res.keyV
    /\ keyT' = res.keyT
    /\ tagV' = res.tagV
    /\ tagT' = res.tagT
    /\ logs' = res.logs
    /\ anchors' = res.anchors
    /\ tail' = res.tail
    /\ nOK' = IF res.err = "nil" THEN nOK + 1 ELSE nOK
    /\ nFail' = IF res.err = "nil" THEN nFail ELSE nFail + 1

(***************************************************************************)
(* Verifiers.                                                              *)
(***************************************************************************)
RECURSIVE VerifyLoop(_, _, _, _, _, _, _)
\* the loop of VerifyChain from record number pos on; expect, key, prev and
\* lastTag are the loop's variables before that iteration
VerifyLoop(records, pos, expect, key, prev, lastTag, useVerifierChain) ==
    IF pos > Len(records) THEN [tag |-> lastTag, err |-> "nil"]
    ELSE LET r == records[pos]
             exp == expect + 1
             k == Sum256(<<key>>)
             macVal == mac(k, PutUint64(r.Index), PutUint64(r.TS), r.Msg)
             tag == IF isZero32(prev) THEN htag(macVal) ELSE fold(prev, macVal)
             stored == IF useVerifierChain THEN r.TagV ELSE r.TagT
         IN  IF r.Index # exp THEN [tag |-> lastTag, err |-> "ErrGap"]
             ELSE IF ~constantTimeEqual(tag, stored)
                  THEN [tag |-> lastTag, err |-> "ErrTagMismatch"]
             ELSE VerifyLoop(records, pos + 1, exp, k, tag, tag, useVerifierChain)

VerifyChain_tagFirst(records, startIdx, kStart, tStart, useVerifierChain) ==
    LET res == VerifyLoop(records, 1, startIdx, kStart, tStart, Zero, useVerifierChain)
    IN  IF res.err = "ErrGap" THEN [res EXCEPT !.err = "ErrTagMismatch"] ELSE res

\* VerifyChain: the (lastTag, err) it returns
VerifyChain(records, startIdx, kStart, tStart, useVerifierChain) ==
    VerifyLoop(records, 1, startIdx, kStart, tStart, Zero, useVerifierChain)

VerifyFrom(records, startIdx, kStart, tStart) ==
    VerifyChain(records, startIdx, kStart, tStart, TRUE)

VerifyFromTrusted_vchain(records, startIdx, kStart, tStart) ==
    VerifyChain(records, startIdx, kStart, tStart, TRUE)

VerifyFromTrusted(records, startIdx, kStart, tStart) ==
    VerifyChain(records, startIdx, kStart, tStart, FALSE)

\* Store.Iter(startIdx) drained into a slice: the records with Index >= startIdx
Iter(recs, startIdx) == SelectSeq(recs, LAMBDA r : r.Index >= startIdx)

\* SemiTrustedVerifier.VerifyFromAnchor(a) on a store holding recs and tl
SemiVerifyFromAnchor(recs, tl, a) ==
    LET v == VerifyFrom(Iter(recs, a.Index + 1), a.Index, a.Key, a.TagV)
    IN  IF v.err # "nil" THEN v.err
        ELSE IF ~tl.ok THEN "tail state unavailable"
        ELSE IF ~hmac_Equal(v.tag, tl.TagV) THEN "ErrTagMismatch"
        ELSE "nil"

\* TrustedVerifier.VerifyAll() with initialKeyB0 = kb0
VerifyAll(recs, tl, kb0) ==
    LET v == VerifyFromTrusted(Iter(recs, 1), 0, kb0, Zero)
    IN  IF v.err # "nil" THEN v.err
        ELSE IF ~tl.ok THEN "tail state unavailable"
        ELSE IF ~hmac_Equal(v.tag, tl.TagT) THEN "ErrTagMismatch"
        ELSE "nil"

\* TrustedVerifier.VerifyFromAnchor(idx, bi, tagT)
TrustedVerifyFromAnchor(recs, tl, idx, bi, tT) ==
    LET v == VerifyFromTrusted(Iter(recs, idx + 1), idx, bi, tT)
    IN  IF v.err # "nil" THEN v.err
        ELSE IF ~tl.ok THEN "tail state unavailable"
        ELSE IF ~hmac_Equal(v.tag, tl.TagT) THEN "ErrTagMismatch"
        ELSE "nil"

\* no Store.Append made yet
NoCall == [r |-> [Index |-> 0, TS |-> 0, Msg |-> <<>>, TagV |-> Zero, TagT |-> Zero],
           tail |-> NoTail, anchor |-> NoAnchor]

\* goroutines that call Tail, AnchorAt and ListAnchors on one fileStore
Readers == {1, 2}

\* a reader that has made no call yet
NoRead == [pc |-> "idle", op |-> "none", arg |-> 0, acc |-> <<>>,
           res |-> <<>>, calls |-> 0]

\* no conversion made yet
NoWire == [op |-> "none", kind |-> "none", in |-> <<>>, out |-> <<>>, err |-> "nil"]

\* no fileStore.Append in progress; nothing on disk but three empty files
NoAppend == [pc |-> "idle", dLogs |-> 0, dAnchors |-> 0, tails |-> {NoTail}]

\* no verifier call in progress
NoVerifier == [pc |-> "idle", op |-> "none", start |-> NoAnchor, recs |-> <<>>]

\* goroutines net/http runs the handlers of one Server in
Handlers == {1, 2}

\* a handler goroutine that serves no request
NoRequest == [pc |-> "idle", op |-> "none"]

\* no iterator yet
NoIter == [pc |-> "none", startIdx |-> 0, n0 |-> 0, off |-> 0, buf |-> <<>>,
           pend |-> <<>>, out |-> <<>>, got |-> <<>>, done |-> FALSE]

\* a call may be hit by a failure only while the failure budget lasts
MayFail(f) ==
    /\ f \in FailPoints \cup {"none"}
    /\ f # "none" => nFail < MaxFail

\* the calls that change the logger, the store or the trusted server
LoggerOps == {"New", "Append", "Close", "InitProtocol", "CloseProtocol",
              "AcceptClosure", "NewRemoteLogger"}

\* An audit reads the store and changes nothing but `last`.  Running an audit
\* from the result state of another audit, or continuing the logger from it,
\* reaches no logger or store state that is not reached without the audit, so
\* every call starts from the result state of a call that changes state.
Quiescent == last.op \in LoggerOps

\* the model stops calling Append once the log is full or a call has failed
\* with the failure budget already spent
CanAppend == Quiescent /\ Len(logs) < MaxIdx /\ nFail <= MaxFail

\* New(cfg, store) on an empty store
Init ==
    /\ backend \in Backends
    /\ AnchorEvery \in AnchorEverys
    /\ \E sp \in SeedPairs : a0 = sp[1] /\ b0 = sp[2]
    /\ i = 0
    /\ keyV = a0
    /\ keyT = b0
    /\ tagV = Zero
    /\ tagT = Zero
    /\ logs = <<>>
    /\ anchors = <<>>
    /\ tail = NoTail
    /\ last = Result("New", "nil")
    /\ nOK = 0
    /\ nFail = 0
    /\ hist = "fresh"
    /\ commit = NoCommit
    /\ open = NoOpen
    /\ closeMsg = NoClose
    /\ commitments = [id \in LogIDs |-> NoCommit]
    /\ opens = [id \in LogIDs |-> NoOpen]
    /\ closures = [id \in LogIDs |-> NoClose]
    /\ rl = "none"
    /\ closed = FALSE
    /\ pc = [g \in Procs |-> "idle"]
    /\ held = [g \in Procs |-> NoClose]
    /\ calls = [g \in Procs |-> 0]
    /\ sent = <<>>
    /\ dbLogs = <<>>
    /\ dbAnchors = <<>>
    /\ dbTail = NoTail
    /\ call = NoCall
    /\ tailOff = 0
    /\ anchorOff = 0
    /\ rd = [g \in Readers |-> NoRead]
    /\ it = NoIter
    /\ wire = NoWire
    /\ subm = <<>>
    /\ ap = NoAppend
    /\ vf = NoVerifier
    /\ hs = [g \in Handlers |-> NoRequest]

\* Logger.Append(msg, ts)
DoAppend(msg, ts, f) ==
    /\ CanAppend
    /\ MayFail(f)
    /\ LET res == LoggerAppend(msg, ts, f)
       IN  /\ Commit(res)
           /\ last' = [Result("Append", res.err) EXCEPT !.n = res.Index, !.tag = res.Tag]
           /\ hist' = IF hist = "open" /\ res.err = "nil" THEN "open" ELSE "other"
    /\ UNCHANGED <<cfgVars, wireVars, stepVars, ioVars, outboxVars, serverVars, rlVars>>

\* Logger.Close(ts): Append of the CLOSE body
DoClose(ts, f) ==
    /\ CanAppend
    /\ MayFail(f)
    /\ LET res == LoggerAppend(CLOSE, ts, f)
       IN  /\ Commit(res)
           /\ last' = [Result("Close", res.err) EXCEPT !.n = res.Index, !.tag = res.Tag]
           /\ hist' = "other"
    /\ UNCHANGED <<cfgVars, wireVars, stepVars, ioVars, outboxVars, serverVars, rlVars>>

(***************************************************************************)
(* Audits: a verifier reads the store and replays a chain.                 *)
(***************************************************************************)
\* the origin anchor (0, A_0, zero tag) of the V-chain
OriginAnchor == [Index |-> 0, Key |-> a0, TagV |-> Zero, TagT |-> Zero]

\* VerifyFrom and VerifyFromTrusted from the origin over all stored records
DoVerify ==
    /\ Quiescent
    /\ LET recs == Iter(logs, 1)
           v == VerifyFrom(recs, 0, a0, Zero)
           t == VerifyFromTrusted(recs, 0, b0, Zero)
       IN  last' = [op |-> "Verify", err |-> v.err, err2 |-> t.err, err3 |-> "nil",
                    tag |-> v.tag, tag2 |-> t.tag, n |-> Len(recs)]
    /\ UNCHANGED auditFrame

\* the values a tampering party writes into a field
FieldNames == {"Msg", "TS", "Index", "TagV", "TagT"}
TamperValues(field) ==
    CASE field = "Msg" -> Msgs \cup {START, CLOSE, TAMPERED, <<>>}
      [] field = "TS" -> TSs \cup {0, 2, 3}
      [] field = "Index" -> 0 .. (MaxIdx + 2)
      [] OTHER -> {Zero, htag(Zero)} \cup {logs[k].TagV : k \in 1 .. Len(logs)}
                                    \cup {logs[k].TagT : k \in 1 .. Len(logs)}

\* records with the given field of record number pos replaced by val
Tampered(recs, pos, field, val) ==
    [recs EXCEPT ![pos] =
        CASE field = "Msg" -> [@ EXCEPT !.Msg = val]
          [] field = "TS" -> [@ EXCEPT !.TS = val]
          [] field = "Index" -> [@ EXCEPT !.Index = val]
          [] field = "TagV" -> [@ EXCEPT !.TagV = val]
          [] OTHER -> [@ EXCEPT !.TagT = val]]

FieldOf(r, field) ==
    CASE field = "Msg" -> r.Msg
      [] field = "TS" -> r.TS
      [] field = "Index" -> r.Index
      [] field = "TagV" -> r.TagV
      [] OTHER -> r.TagT

\* both verifiers run from the origin over the stored records after one
\* field of one record was changed
DoVerifyTampered(pos, field, val) ==
    /\ Quiescent
    /\ pos \in 1 .. Len(logs)
    /\ val \in TamperValues(field)
    /\ val # FieldOf(logs[pos], field)
    /\ LET recs == Tampered(Iter(logs, 1), pos, field, val)
           v == VerifyFrom(recs, 0, a0, Zero)
           t == VerifyFromTrusted(recs, 0, b0, Zero)
       IN  last' = [Result("VerifyTampered", v.err) EXCEPT !.err2 = t.err]
    /\ UNCHANGED auditFrame

\* the anchors a semi-trusted verifier can start from: the origin and the
\* anchors in the store
KnownAnchors == {OriginAnchor} \cup {anchors[k] : k \in 1 .. Len(anchors)}

\* SemiTrustedVerifier.VerifyFromAnchor(a)
DoVerifyFromAnchor(a) ==
    /\ Quiescent
    /\ a \in KnownAnchors
    /\ last' = [Result("VerifyFromAnchor", SemiVerifyFromAnchor(logs, tail, a))
                   EXCEPT !.n = a.Index]
    /\ UNCHANGED auditFrame

\* TrustedVerifier.VerifyAll() by the holder of B_0
DoVerifyAll ==
    /\ Quiescent
    /\ last' = Result("VerifyAll", VerifyAll(logs, tail, b0))
    /\ UNCHANGED auditFrame

\* the records after m and later were deleted from the log, the tail slot and
\* the anchors left as they are; then VerifyFromAnchor(a) and VerifyAll run
DoVerifyTruncated(m, a) ==
    /\ Quiescent
    /\ m \in 0 .. (Len(logs) - 1)
    /\ a \in KnownAnchors
    /\ LET kept == SubSeq(logs, 1, m)
           replay == VerifyFrom(Iter(kept, a.Index + 1), a.Index, a.Key, a.TagV)
       IN  last' = [op |-> "VerifyTruncated",
                    err |-> SemiVerifyFromAnchor(kept, tail, a),
                    err2 |-> VerifyAll(kept, tail, b0), err3 |-> "nil",
                    tag |-> replay.tag, tag2 |-> Zero, n |-> a.Index]
    /\ UNCHANGED auditFrame

\* the verifier calls that read the store in two steps
VerifierOps == {"VerifyFromAnchor", "VerifyAll"}

\* SemiTrustedVerifier.VerifyFromAnchor(a) or TrustedVerifier.VerifyAll() up
\* to the end of `for r := range ch`: Iter(a.Index + 1) is drained into recs,
\* which holds what the log held when the producer met io.EOF
VerifierIter(op, a) ==
    /\ Quiescent
    /\ vf.pc = "idle"
    /\ op \in VerifierOps
    /\ a \in KnownAnchors
    /\ op = "VerifyAll" => a = OriginAnchor
    /\ vf' = [pc |-> "drained", op |-> op, start |-> a,
              recs |-> Iter(logs, a.Index + 1)]
    /\ UNCHANGED <<cfgVars, wireVars, ap, hs, ioVars, loggerVars, storeVars, nOK, nFail,
                   hist, last, outboxVars, serverVars, rlVars>>

\* the rest of the call: the replay of recs, then store.Tail() as the store
\* is by now, and the comparison of the final tag with it
VerifierTail ==
    /\ Quiescent
    /\ vf.pc = "drained"
    /\ last' = [Result(vf.op,
                       IF vf.op = "VerifyAll" THEN VerifyAll(vf.recs, tail, b0)
                       ELSE SemiVerifyFromAnchor(vf.recs, tail, vf.start))
                   EXCEPT !.n = Len(vf.recs),
                          !.err2 = IF Len(logs) > vf.start.Index + Len(vf.recs)
                                   THEN "appended meanwhile" ELSE "nil"]
    /\ vf' = [vf EXCEPT !.pc = "returned"]
    /\ UNCHANGED <<cfgVars, wireVars, ap, hs, ioVars, loggerVars, storeVars, nOK, nFail,
                   hist, outboxVars, serverVars, rlVars>>

(***************************************************************************)
(* Protocol driver and trusted server.                                     *)
(***************************************************************************)
keyUpdateFrequency_anchorEvery == AnchorEvery

\* Logger.keyUpdateFrequency()
keyUpdateFrequency == 1

DoInitProtocol_commitAfter(logID, now, f) ==
    /\ CanAppend
    /\ MayFail(f)
    /\ LET res == LoggerAppend(START, now, f)
           c == [ok |-> TRUE, LogID |-> logID, StartTime |-> now,
                 KeyA0 |-> res.keyV, KeyB0 |-> res.keyT,
                 UpdateFreq |-> keyUpdateFrequency]
       IN  /\ Commit(res)
           /\ last' = [Result("InitProtocol", res.err) EXCEPT !.n = res.Index]
           /\ IF res.err # "nil"
              THEN UNCHANGED <<commit, open>>
              ELSE /\ commit' = c
                   /\ open' = [ok |-> TRUE, LogID |-> logID, OpenTime |-> now,
                               FirstIndex |-> res.Index,
                               FirstTagV |-> res.tagV, FirstTagT |-> res.tagT]
           /\ hist' = IF hist = "fresh" /\ res.err = "nil" THEN "open" ELSE "other"
    /\ UNCHANGED <<cfgVars, wireVars, stepVars, ioVars, closeMsg, serverVars, rlVars>>

\* Logger.InitProtocol(logID): the commitment is built from the current keys,
\* then START is appended and the open message built from LastState
DoInitProtocol(logID, now, f) ==
    /\ CanAppend
    /\ MayFail(f)
    /\ LET c == [ok |-> TRUE, LogID |-> logID, StartTime |-> now,
                 KeyA0 |-> keyV, KeyB0 |-> keyT, UpdateFreq |-> keyUpdateFrequency]
           res == LoggerAppend(START, now, f)
       IN  /\ Commit(res)
           /\ last' = [Result("InitProtocol", res.err) EXCEPT !.n = res.Index]
           /\ IF res.err # "nil"
              THEN UNCHANGED <<commit, open>>
              ELSE /\ commit' = c
                   /\ open' = [ok |-> TRUE, LogID |-> logID, OpenTime |-> now,
                               FirstIndex |-> res.Index,
                               FirstTagV |-> res.tagV, FirstTagT |-> res.tagT]
           /\ hist' = IF hist = "fresh" /\ res.err = "nil" THEN "open" ELSE "other"
    /\ UNCHANGED <<cfgVars, wireVars, stepVars, ioVars, closeMsg, serverVars, rlVars>>

CloseProtocol_keepKeys(logID, now, f) ==
    LET res == LoggerAppend(CLOSE, now, f)
    IN  IF res.err # "nil"
        THEN [res EXCEPT !.Tag = NoClose]
        ELSE [res EXCEPT !.Tag = [ok |-> TRUE, LogID |-> logID, CloseTime |-> now,
                                  FinalIndex |-> res.i,
                                  FinalTagV |-> res.tagV, FinalTagT |-> res.tagT]]

\* Logger.CloseProtocol(logID): the logger and store state it leaves, the
\* error and the CloseMessage it returns
CloseProtocol(logID, now, f) ==
    LET res == LoggerAppend(CLOSE, now, f)
    IN  IF res.err # "nil"
        THEN [res EXCEPT !.Tag = NoClose]
        ELSE [res EXCEPT !.keyV = Zero, !.keyT = Zero,
                         !.Tag = [ok |-> TRUE, LogID |-> logID, CloseTime |-> now,
                                  FinalIndex |-> res.i,
                                  FinalTagV |-> res.tagV, FinalTagT |-> res.tagT]]

DoCloseProtocol(logID, now, f) ==
    /\ CanAppend
    /\ MayFail(f)
    /\ LET res == CloseProtocol(logID, now, f)
       IN  /\ Commit(res)
           /\ last' = [Result("CloseProtocol", res.err) EXCEPT !.n = res.Index]
           /\ closeMsg' = IF res.err = "nil" THEN res.Tag ELSE closeMsg
           /\ hist' = IF hist = "open" /\ res.err = "nil" THEN "closed" ELSE "other"
    /\ UNCHANGED <<cfgVars, wireVars, stepVars, ioVars, commit, open, serverVars, rlVars>>

\* TrustedServer.RegisterLog(commit)
RegisterLog(c) ==
    /\ Quiescent
    /\ c.ok
    /\ commitments[c.LogID] # c
    /\ commitments' = [commitments EXCEPT ![c.LogID] = c]
    /\ UNCHANGED <<cfgVars, wireVars, stepVars,
                   ioVars, loggerVars, storeVars, nOK, nFail, hist, last,
                   outboxVars, opens, closures, rlVars>>

\* TrustedServer.RegisterOpen(open)
RegisterOpen(o) ==
    /\ Quiescent
    /\ o.ok
    /\ opens[o.LogID] # o
    /\ opens' = [opens EXCEPT ![o.LogID] = o]
    /\ UNCHANGED <<cfgVars, wireVars, stepVars,
                   ioVars, loggerVars, storeVars, nOK, nFail, hist, last,
                   outboxVars, commitments, closures, rlVars>>

AcceptClosure_noCheck(cs, c) ==
    [closures |-> [cs EXCEPT ![c.LogID] = c], err |-> "nil"]

\* TrustedServer.AcceptClosure(closeMsg): the closures map it leaves and the
\* error it returns
AcceptClosure(cs, c) ==
    IF ~commitments[c.LogID].ok
    THEN [closures |-> cs, err |-> "unknown log ID"]
    ELSE [closures |-> [cs EXCEPT ![c.LogID] = c], err |-> "nil"]

DoAcceptClosure(c) ==
    /\ Quiescent
    /\ c.ok
    /\ closures[c.LogID] # c
    /\ LET r == AcceptClosure(closures, c)
       IN  /\ closures' = r.closures
           /\ last' = [Result("AcceptClosure", r.err) EXCEPT !.n = last.n]
    /\ UNCHANGED <<cfgVars, wireVars, stepVars,
                   ioVars, loggerVars, storeVars, nOK, nFail, hist,
                   outboxVars, commitments, opens, rlVars>>

\* VerifyCloseMessage(records, closeMsg)
VerifyCloseMessage(records, c) ==
    IF Len(records) = 0 THEN "no records to verify"
    ELSE IF records[Len(records)].Index # c.FinalIndex THEN "final index mismatch"
    ELSE IF records[Len(records)].Msg # CLOSE THEN "missing proper closing message"
    ELSE "nil"

\* fmt.Errorf("verify opening V-chain: %w", err)
WrapOpeningV(err) ==
    IF err = "ErrGap" THEN "verify opening V-chain: ErrGap"
    ELSE "verify opening V-chain: ErrTagMismatch"

\* fmt.Errorf("verify opening T-chain: %w", err)
WrapOpeningT(err) ==
    IF err = "ErrGap" THEN "verify opening T-chain: ErrGap"
    ELSE "verify opening T-chain: ErrTagMismatch"

OpeningCheck_bodyFirst(c, o, records) ==
    IF Len(records) = 0 THEN "no records to verify"
    ELSE IF records[1].Msg # START THEN "missing opening message"
    ELSE IF records[1].Index # o.FirstIndex THEN "opening index mismatch"
    ELSE LET firstV == VerifyFrom(SubSeq(records, 1, 1), 0, c.KeyA0, Zero)
             firstT == VerifyFromTrusted(SubSeq(records, 1, 1), 0, c.KeyB0, Zero)
         IN  IF firstV.err # "nil" THEN WrapOpeningV(firstV.err)
             ELSE IF firstT.err # "nil" THEN WrapOpeningT(firstT.err)
             ELSE IF ~hmac_Equal(firstV.tag, o.FirstTagV) \/ ~hmac_Equal(firstT.tag, o.FirstTagT)
                  THEN "opening tag mismatch"
             ELSE "nil"

OpeningCheck_wholeVChain(c, o, records) ==
    IF Len(records) = 0 THEN "no records to verify"
    ELSE IF records[1].Index # o.FirstIndex THEN "opening index mismatch"
    ELSE IF records[1].Msg # START THEN "missing opening message"
    ELSE LET firstV == VerifyFrom(SubSeq(records, 1, 1), 0, c.KeyA0, Zero)
             allV == VerifyFrom(records, 0, c.KeyA0, Zero)
             firstT == VerifyFromTrusted(SubSeq(records, 1, 1), 0, c.KeyB0, Zero)
         IN  IF allV.err # "nil" THEN WrapOpeningV(allV.err)
             ELSE IF firstT.err # "nil" THEN WrapOpeningT(firstT.err)
             ELSE IF ~hmac_Equal(firstV.tag, o.FirstTagV) \/ ~hmac_Equal(firstT.tag, o.FirstTagT)
                  THEN "opening tag mismatch"
             ELSE "nil"

\* FinalVerify, first part: the checks of the records against the open message
OpeningCheck(c, o, records) ==
    IF Len(records) = 0 THEN "no records to verify"
    ELSE IF records[1].Index # o.FirstIndex THEN "opening index mismatch"
    ELSE IF records[1].Msg # START THEN "missing opening message"
    ELSE LET firstV == VerifyFrom(SubSeq(records, 1, 1), 0, c.KeyA0, Zero)
             firstT == VerifyFromTrusted(SubSeq(records, 1, 1), 0, c.KeyB0, Zero)
         IN  IF firstV.err # "nil" THEN WrapOpeningV(firstV.err)
             ELSE IF firstT.err # "nil" THEN WrapOpeningT(firstT.err)
             ELSE IF ~hmac_Equal(firstV.tag, o.FirstTagV) \/ ~hmac_Equal(firstT.tag, o.FirstTagT)
                  THEN "opening tag mismatch"
             ELSE "nil"

ClosureCheck_closureLast(c, cl, records) ==
    IF VerifyCloseMessage(records, cl) # "nil" THEN VerifyCloseMessage(records, cl)
    ELSE LET finalTag == VerifyFromTrusted(records, 0, c.KeyB0, Zero)
         IN  IF finalTag.err # "nil" THEN finalTag.err
             ELSE IF ~hmac_Equal(finalTag.tag, cl.FinalTagT)
                  THEN "final T-chain tag mismatch"
             ELSE IF ~cl.ok THEN "ErrLogNotClosed"
             ELSE "nil"

\* FinalVerify, second part: the checks against the closure
ClosureCheck(c, cl, records) ==
    IF ~cl.ok THEN "ErrLogNotClosed"
    ELSE IF VerifyCloseMessage(records, cl) # "nil" THEN VerifyCloseMessage(records, cl)
    ELSE LET finalTag == VerifyFromTrusted(records, 0, c.KeyB0, Zero)
         IN  IF finalTag.err # "nil" THEN finalTag.err
             ELSE IF ~hmac_Equal(finalTag.tag, cl.FinalTagT)
                  THEN "final T-chain tag mismatch"
             ELSE "nil"

\* TrustedServer.FinalVerify(logID, records) on a server whose maps hold
\* commitment c, open message o and closure cl for logID
FinalVerifyOf(c, o, cl, records) ==
    IF ~c.ok THEN "log not registered with trusted server"
    ELSE IF ~o.ok THEN "log opening not registered with trusted server"
    ELSE IF OpeningCheck(c, o, records) # "nil" THEN OpeningCheck(c, o, records)
    ELSE ClosureCheck(c, cl, records)

\* TrustedServer.FinalVerify(logID, records)
FinalVerify(logID, records) ==
    FinalVerifyOf(commitments[logID], opens[logID], closures[logID], records)

\* FinalVerify of all the stored records
DoFinalVerify(logID) ==
    /\ Quiescent
    /\ last' = [Result("FinalVerify", FinalVerify(logID, Iter(logs, 1)))
                   EXCEPT !.n = Len(logs)]
    /\ UNCHANGED auditFrame

(***************************************************************************)
(* The structured (protobuf) form of the messages and the conversions to   *)
(* and from it.  A 32-byte array is a value as everywhere in the model; a  *)
(* bytes field of the structured form is a slice: its length and its       *)
(* content.  A time.Time is an instant (seconds and nanoseconds since the  *)
(* Unix epoch) and a location.                                             *)
(***************************************************************************)
KeySize == 32

\* a[:] of an array of KeySize bytes
Slice32(a) == [len |-> KeySize, data |-> a]

\* time.Time{}: 1 January of year 1 UTC, on the model's scale of seconds
ZeroTime == [sec |-> 0 - 62135, nsec |-> 0, loc |-> "UTC"]

\* timestamppb.New(t): Seconds: t.Unix(), Nanos: t.Nanosecond()
timestamppb_New(t) == [ok |-> TRUE, Seconds |-> t.sec, Nanos |-> t.nsec]

AsTime_seconds(ts) ==
    IF ~ts.ok THEN [sec |-> 0, nsec |-> 0, loc |-> "UTC"]
    ELSE [sec |-> ts.Seconds + (ts.Nanos \div 1000000000), nsec |-> 0, loc |-> "UTC"]

\* (*timestamppb.Timestamp).AsTime(): time.Unix(seconds, nanos).UTC(); the
\* getters of a nil Timestamp return 0
AsTime(ts) ==
    IF ~ts.ok THEN [sec |-> 0, nsec |-> 0, loc |-> "UTC"]
    ELSE [sec |-> ts.Seconds + (ts.Nanos \div 1000000000),
          nsec |-> ts.Nanos % 1000000000, loc |-> "UTC"]

\* time.Time.Equal: the same instant, whatever the locations
TimeEqual(t, u) == t.sec = u.sec /\ t.nsec = u.nsec

\* the zero values of the native types
ZeroInitCommitment == [LogID |-> "", StartTime |-> ZeroTime, KeyA0 |-> Zero,
                       KeyB0 |-> Zero, UpdateFreq |-> 0]
ZeroOpenMessage == [LogID |-> "", OpenTime |-> ZeroTime, FirstIndex |-> 0,
                    FirstTagV |-> Zero, FirstTagT |-> Zero]
ZeroCloseMessage == [LogID |-> "", CloseTime |-> ZeroTime, FinalIndex |-> 0,
                     FinalTagV |-> Zero, FinalTagT |-> Zero]
ZeroRecord == [Index |-> 0, TS |-> 0, Msg |-> <<>>, TagV |-> Zero, TagT |-> Zero]

ToProtoInitCommitment(c) ==
    [LogId |-> c.LogID, StartTime |-> timestamppb_New(c.StartTime),
     KeyA0 |-> Slice32(c.KeyA0), KeyB0 |-> Slice32(c.KeyB0),
     UpdateFreq |-> c.UpdateFreq]

\* FromProtoInitCommitment: the (value, error) pair it returns
FromProtoInitCommitment(p) ==
    LET c1 == [ZeroInitCommitment EXCEPT !.LogID = p.LogId,
                                         !.StartTime = AsTime(p.StartTime)]
        c2 == [c1 EXCEPT !.KeyA0 = p.KeyA0.data]
        c3 == [c2 EXCEPT !.KeyB0 = p.KeyB0.data, !.UpdateFreq = p.UpdateFreq]
    IN  IF p.KeyA0.len # KeySize THEN [val |-> c1, err |-> "invalid KeyA0 size"]
        ELSE IF p.KeyB0.len # KeySize THEN [val |-> c2, err |-> "invalid KeyB0 size"]
        ELSE [val |-> c3, err |-> "nil"]

ToProtoOpenMessage(o) ==
    [LogId |-> o.LogID, OpenTime |-> timestamppb_New(o.OpenTime),
     FirstIndex |-> o.FirstIndex,
     FirstTagV |-> Slice32(o.FirstTagV), FirstTagT |-> Slice32(o.FirstTagT)]

\* FromProtoOpenMessage: the (value, error) pair it returns
FromProtoOpenMessage(p) ==
    LET o1 == [ZeroOpenMessage EXCEPT !.LogID = p.LogId,
                                      !.OpenTime = AsTime(p.OpenTime),
                                      !.FirstIndex = p.FirstIndex]
        o2 == [o1 EXCEPT !.FirstTagV = p.FirstTagV.data]
        o3 == [o2 EXCEPT !.FirstTagT = p.FirstTagT.data]
    IN  IF p.FirstTagV.len # 32 THEN [val |-> o1, err |-> "invalid FirstTagV size"]
        ELSE IF p.FirstTagT.len # 32 THEN [val |-> o2, err |-> "invalid FirstTagT size"]
        ELSE [val |-> o3, err |-> "nil"]

ToProtoCloseMessage(c) ==
    [LogId |-> c.LogID, CloseTime |-> timestamppb_New(c.CloseTime),
     FinalIndex |-> c.FinalIndex,
     FinalTagV |-> Slice32(c.FinalTagV), FinalTagT |-> Slice32(c.FinalTagT)]

\* FromProtoCloseMessage: the (value, error) pair it returns
FromProtoCloseMessage(p) ==
    LET c1 == [ZeroCloseMessage EXCEPT !.LogID = p.LogId,
                                       !.CloseTime = AsTime(p.CloseTime),
                                       !.FinalIndex = p.FinalIndex]
        c2 == [c1 EXCEPT !.FinalTagV = p.FinalTagV.data]
        c3 == [c2 EXCEPT !.FinalTagT = p.FinalTagT.data]
    IN  IF p.FinalTagV.len # 32 THEN [val |-> c1, err |-> "invalid FinalTagV size"]
        ELSE IF p.FinalTagT.len # 32 THEN [val |-> c2, err |-> "invalid FinalTagT size"]
        ELSE [val |-> c3, err |-> "nil"]

ToProtoRecord(r) ==
    [Index |-> r.Index, Ts |-> r.TS, Msg |-> r.Msg,
     TagV |-> Slice32(r.TagV), TagT |-> Slice32(r.TagT)]

FromProtoRecord_tagVOnly(p) ==
    LET r1 == [ZeroRecord EXCEPT !.Index = p.Index, !.TS = p.Ts,
                                 !.Msg = [k \in 1 .. Len(p.Msg) |-> p.Msg[k]]]
        r2 == [r1 EXCEPT !.TagV = p.TagV.data]
        r3 == [r2 EXCEPT !.TagT = p.TagT.data]
    IN  IF p.TagV.len # 32 THEN [val |-> r1, err |-> "invalid TagV size"]
        ELSE [val |-> r3, err |-> "nil"]

\* FromProtoRecord: the (value, error) pair it returns; Msg is copied byte by
\* byte
FromProtoRecord(p) ==
    LET r1 == [ZeroRecord EXCEPT !.Index = p.Index, !.TS = p.Ts,
                                 !.Msg = [k \in 1 .. Len(p.Msg) |-> p.Msg[k]]]
        r2 == [r1 EXCEPT !.TagV = p.TagV.data]
        r3 == [r2 EXCEPT !.TagT = p.TagT.data]
    IN  IF p.TagV.len # 32 THEN [val |-> r1, err |-> "invalid TagV size"]
        ELSE IF p.TagT.len # 32 THEN [val |-> r2, err |-> "invalid TagT size"]
        ELSE [val |-> r3, err |-> "nil"]

\* ToProtoRecords: the records one by one
ToProtoRecords(records) ==
    [k \in 1 .. Len(records) |-> ToProtoRecord(records[k])]

\* FromProtoRecords: (nil, error) at the first record FromProtoRecord
\* rejects, the converted records otherwise
FromProtoRecords(pRecords) ==
    IF \E k \in 1 .. Len(pRecords) : FromProtoRecord(pRecords[k]).err # "nil"
    THEN [val |-> <<>>, err |-> "record: invalid size"]
    ELSE [val |-> [k \in 1 .. Len(pRecords) |-> FromProtoRecord(pRecords[k]).val],
          err |-> "nil"]

(***************************************************************************)
(* Transports: how the records reach T for the final verification.         *)
(***************************************************************************)
Transports == {"HTTP", "ProtoHTTP", "Local", "Folder"}

\* encodeVerifyResponse: status 200 in both formats; the verdict travels in
\* the body
encodeVerifyResponse(isProtobuf, verified) ==
    [StatusCode |-> 200, Verified |-> verified]

\* Server.HandleVerify for a request that decodes: FinalVerify, then the
\* response
HandleVerify(isProtobuf, logID, records) ==
    LET err == FinalVerify(logID, records)
    IN  IF err # "nil" THEN encodeVerifyResponse(isProtobuf, FALSE)
        ELSE encodeVerifyResponse(isProtobuf, TRUE)

\* HTTPTransport.SendLogFile: true iff the response status is 200
HTTPSendLogFile(logID, records) ==
    HandleVerify(FALSE, logID, records).StatusCode = 200

\* ProtoHTTPTransport.SendLogFile: true iff the response says Verified; a
\* request decodeVerifyRequest rejects is answered without a VerifyResponse
ProtoSendLogFile(logID, records) ==
    LET req == FromProtoRecords(ToProtoRecords(records))
    IN  IF req.err # "nil" THEN FALSE
        ELSE HandleVerify(TRUE, logID, req.val).Verified

\* LocalTransport.SendLogFile: err == nil of FinalVerify
LocalSendLogFile(logID, records) == FinalVerify(logID, records) = "nil"

\* FolderTransport.SendLogFile: true iff the log directory exists
FolderSendLogFile(logID, records, dirExists) == dirExists

\* Transport.SendLogFile(logID, records) with the stored records
DoSendLogFile(transport, logID, dirExists) ==
    /\ Quiescent
    /\ LET recs == Iter(logs, 1)
           ok == CASE transport = "HTTP" -> HTTPSendLogFile(logID, recs)
                   [] transport = "ProtoHTTP" -> ProtoSendLogFile(logID, recs)
                   [] transport = "Local" -> LocalSendLogFile(logID, recs)
                   [] OTHER -> FolderSendLogFile(logID, recs, dirExists)
       IN  last' = [Result("SendLogFile", FinalVerify(logID, recs)) EXCEPT
                       !.err2 = IF ok THEN "true" ELSE "false",
                       !.err3 = transport, !.n = Len(recs)]
    /\ UNCHANGED auditFrame

\* fmt.Errorf("verify close message: %w", err)
WrapClose(err) ==
    CASE err = "no records to verify" -> "verify close message: no records to verify"
      [] err = "final index mismatch" -> "verify close message: final index mismatch"
      [] OTHER -> "verify close message: missing proper closing message"

\* fmt.Errorf("verify T-chain: %w", err)
WrapTChain(err) ==
    IF err = "ErrGap" THEN "verify T-chain: ErrGap"
    ELSE "verify T-chain: ErrTagMismatch"

VerifyLog_tChainOnly(c, o, cl, records) ==
    IF ~c.ok THEN "load commitment"
    ELSE IF ~o.ok THEN "load open message"
    ELSE IF ~cl.ok THEN "load closure"
    ELSE IF VerifyCloseMessage(records, cl) # "nil"
         THEN WrapClose(VerifyCloseMessage(records, cl))
    ELSE IF Len(records) = 0 THEN "no records to verify"
    ELSE IF records[1].Index # o.FirstIndex THEN "opening index mismatch"
    ELSE IF records[1].Msg # START THEN "missing opening entry"
    ELSE LET firstT == VerifyFromTrusted(SubSeq(records, 1, 1), 0, c.KeyB0, Zero)
             finalTag == VerifyFromTrusted(records, 0, c.KeyB0, Zero)
         IN  IF firstT.err # "nil" THEN WrapOpeningT(firstT.err)
             ELSE IF ~hmac_Equal(firstT.tag, o.FirstTagT) THEN "opening tag mismatch"
             ELSE IF finalTag.err # "nil" THEN WrapTChain(finalTag.err)
             ELSE IF ~hmac_Equal(finalTag.tag, cl.FinalTagT)
                  THEN "final T-chain tag mismatch"
             ELSE "nil"

\* FolderTransport.VerifyLog(logID) once LoadCommitment, LoadOpen and
\* LoadClosure returned c, o and cl (ok = FALSE: the file is missing) and
\* Iter(1) of the log store was drained into records
VerifyLog(c, o, cl, records) ==
    IF ~c.ok THEN "load commitment"
    ELSE IF ~o.ok THEN "load open message"
    ELSE IF ~cl.ok THEN "load closure"
    ELSE IF VerifyCloseMessage(records, cl) # "nil"
         THEN WrapClose(VerifyCloseMessage(records, cl))
    ELSE IF Len(records) = 0 THEN "no records to verify"
    ELSE IF records[1].Index # o.FirstIndex THEN "opening index mismatch"
    ELSE IF records[1].Msg # START THEN "missing opening entry"
    ELSE LET firstV == VerifyFrom(SubSeq(records, 1, 1), 0, c.KeyA0, Zero)
             firstT == VerifyFromTrusted(SubSeq(records, 1, 1), 0, c.KeyB0, Zero)
             finalTag == VerifyFromTrusted(records, 0, c.KeyB0, Zero)
         IN  IF firstV.err # "nil" THEN WrapOpeningV(firstV.err)
             ELSE IF firstT.err # "nil" THEN WrapOpeningT(firstT.err)
             ELSE IF ~hmac_Equal(firstV.tag, o.FirstTagV) \/ ~hmac_Equal(firstT.tag, o.FirstTagT)
                  THEN "opening tag mismatch"
             ELSE IF finalTag.err # "nil" THEN WrapTChain(finalTag.err)
             ELSE IF ~hmac_Equal(finalTag.tag, cl.FinalTagT)
                  THEN "final T-chain tag mismatch"
             ELSE "nil"

\* a folder holding the commitment, open and close message T holds and a log
\* store holding the stored records, as they are (pos = 0) or with one field
\* of record number pos changed: VerifyLog on the folder, FinalVerify on the
\* records VerifyLog read
DoVerifyLog(logID, pos, field, val) ==
    /\ Quiescent
    /\ pos \in 0 .. Len(logs)
    /\ pos = 0 => (field = "Msg" /\ val = <<>>)
    /\ pos > 0 => (val \in TamperValues(field) /\ val # FieldOf(logs[pos], field))
    /\ LET stored == IF pos = 0 THEN logs ELSE Tampered(logs, pos, field, val)
           recs == Iter(stored, 1)
       IN  last' = [Result("VerifyLog", VerifyLog(commitments[logID], opens[logID],
                                                  closures[logID], recs)) EXCEPT
                       !.err2 = FinalVerify(logID, recs), !.n = pos]
    /\ UNCHANGED auditFrame

RECURSIVE RetagV(_, _, _, _)
\* the holder of the A-chain keys recomputes the TagV fields from record number
\* pos on, as VerifyChain replays them; TagT fields stay as they are
RetagV(records, pos, key, prev) ==
    IF pos > Len(records) THEN records
    ELSE LET r == records[pos]
             k == fwdKey(key)
             m == mac(k, PutUint64(r.Index), PutUint64(r.TS), r.Msg)
             tag == IF isZero32(prev) THEN htag(m) ELSE fold(prev, m)
         IN  RetagV([records EXCEPT ![pos].TagV = tag], pos + 1, k, tag)

\* the verifier V changes Msg or TS of record number pos and rewrites the
\* V-chain; then VerifyFrom, VerifyFromTrusted and FinalVerify run on the result
DoVerifyForged(logID, pos, field, val) ==
    /\ Quiescent
    /\ pos \in 1 .. Len(logs)
    /\ field \in {"Msg", "TS"}
    /\ val \in TamperValues(field)
    /\ val # FieldOf(logs[pos], field)
    /\ LET recs == RetagV(Tampered(Iter(logs, 1), pos, field, val), 1, a0, Zero)
           v == VerifyFrom(recs, 0, a0, Zero)
           t == VerifyFromTrusted(recs, 0, b0, Zero)
       IN  last' = [Result("VerifyForged", v.err) EXCEPT
                       !.err2 = t.err, !.err3 = FinalVerify(logID, recs), !.n = pos]
    /\ UNCHANGED auditFrame

\* the values the first of two changes writes into a field: a body that is
\* neither START nor CLOSE, START and CLOSE themselves, an index no record
\* has and the index of the second record
AlterValues(field) ==
    CASE field = "Msg" -> {TAMPERED, START, CLOSE}
      [] field = "TS" -> {0}
      [] field = "Index" -> {0, 2}
      [] OTHER -> {Zero}

\* the second of two changes replaces a body or an index
SecondValue(field) == IF field = "Msg" THEN TAMPERED ELSE 0

\* what may reach T in place of the stored records: a prefix of them, or all
\* of them with one or two fields changed
Submissions ==
    LET recs == Iter(logs, 1)
        one == UNION {UNION {{Tampered(recs, pos, field, val) :
                                 val \in AlterValues(field)} :
                             field \in FieldNames} :
                      pos \in 1 .. Len(recs)}
        two == UNION {{Tampered(r, pos2, field2, SecondValue(field2)) :
                          pos2 \in 1 .. Len(r), field2 \in {"Msg", "Index"}} :
                      r \in one}
    IN  {SubSeq(recs, 1, m) : m \in 0 .. Len(recs)} \cup one \cup two

\* what may reach T in place of the messages the logger produced: the message
\* itself, or the message with one of its tags changed
OpensSent == {open, [open EXCEPT !.FirstTagV = Zero]}
ClosuresSent == {closeMsg, [closeMsg EXCEPT !.FinalTagV = Zero],
                 [closeMsg EXCEPT !.FinalTagT = Zero]}

\* TrustedServer.FinalVerify(logID, records) on a submission
DoFinalVerifySubmitted(logID) ==
    /\ Quiescent
    /\ \E records \in Submissions :
          /\ subm' = records
          /\ last' = [Result("FinalVerifySubmitted", FinalVerify(logID, records))
                         EXCEPT !.n = Len(records)]
    /\ UNCHANGED submitFrame

ChainStart_seedKey(k, useVerifierChain) ==
    [key |-> IF useVerifierChain THEN a0 ELSE b0,
     tag |-> IF k = 0 THEN Zero
             ELSE IF useVerifierChain THEN logs[k].TagV ELSE logs[k].TagT]

\* where a replay that resumes after record k starts: the key K_k = H^k(K_0)
\* and the aggregate tag stored with record k (the zero tag for k = 0)
ChainStart(k, useVerifierChain) ==
    [key |-> KeyAt(IF useVerifierChain THEN a0 ELSE b0, k),
     tag |-> IF k = 0 THEN Zero
             ELSE IF useVerifierChain THEN logs[k].TagV ELSE logs[k].TagT]

\* VerifyChain(records[k+1..], k, K_k, mu_k, useVerifierChain) on a submission,
\* next to VerifyChain(records, 0, K_0, zero, useVerifierChain)
DoVerifyChain(k, useVerifierChain) ==
    /\ Quiescent
    /\ k \in 0 .. Len(logs)
    /\ \E records \in Submissions :
          /\ k <= Len(records)
          /\ LET from == ChainStart(k, useVerifierChain)
                 rest == SubSeq(records, k + 1, Len(records))
                 res == VerifyChain(rest, k, from.key, from.tag, useVerifierChain)
                 full == VerifyChain(records, 0, ChainStart(0, useVerifierChain).key,
                                     Zero, useVerifierChain)
             IN  /\ subm' = records
                 /\ last' = [op |-> "VerifyChain", err |-> res.err, err2 |-> full.err,
                              err3 |-> IF useVerifierChain THEN "V" ELSE "T",
                              tag |-> res.tag, tag2 |-> full.tag, n |-> k]
    /\ UNCHANGED submitFrame

(***************************************************************************)
(* RemoteLogger: a Logger plus a Transport to T.                           *)
(***************************************************************************)
\* LocalTransport.SendCommitment / SendOpen / SendClosure hand the message to
\* the trusted server; another Transport may fail instead (ok = FALSE) and
\* then nothing reaches T.

\* NewRemoteLogger(cfg, store, transport, logID) on the fresh logger
DoNewRemoteLogger(logID, now, f, okCommit, okOpen) ==
    /\ rl = "none"
    /\ hist = "fresh"
    /\ CanAppend
    /\ MayFail(f)
    /\ LET c == [ok |-> TRUE, LogID |-> logID, StartTime |-> now,
                 KeyA0 |-> keyV, KeyB0 |-> keyT, UpdateFreq |-> keyUpdateFrequency]
           res == LoggerAppend(START, now, f)
           o == [ok |-> TRUE, LogID |-> logID, OpenTime |-> now,
                 FirstIndex |-> res.Index,
                 FirstTagV |-> res.tagV, FirstTagT |-> res.tagT]
           initOK == res.err = "nil"
       IN  /\ Commit(res)
           /\ commit' = IF initOK THEN c ELSE commit
           /\ open' = IF initOK THEN o ELSE open
           /\ commitments' = IF initOK /\ okCommit
                             THEN [commitments EXCEPT ![logID] = c] ELSE commitments
           /\ opens' = IF initOK /\ okCommit /\ okOpen
                       THEN [opens EXCEPT ![logID] = o] ELSE opens
           /\ rl' = IF initOK /\ okCommit /\ okOpen THEN "ready" ELSE "failed"
           /\ last' = Result("NewRemoteLogger",
                             IF ~initOK THEN res.err
                             ELSE IF ~okCommit THEN "send initial commitment"
                             ELSE IF ~okOpen THEN "send open message"
                             ELSE "nil")
           /\ hist' = IF initOK THEN "open" ELSE "other"
    /\ UNCHANGED <<cfgVars, wireVars, stepVars,
                   ioVars, closeMsg, closures, closed, pc, held, calls, sent>>

\* RemoteLogger.Append is the embedded Logger's Append
DoRemoteAppend(msg, ts, f) ==
    /\ rl = "ready"
    /\ DoAppend(msg, ts, f)

\* closeOnce, first critical section: return nil if closed is set
CloseEnter(g) ==
    /\ rl = "ready"
    /\ pc[g] = "idle"
    /\ calls[g] < MaxCloseCalls
    /\ calls' = [calls EXCEPT ![g] = @ + 1]
    /\ pc' = [pc EXCEPT ![g] = IF closed THEN "idle" ELSE "proto"]
    /\ UNCHANGED <<cfgVars, wireVars, stepVars,
                   ioVars, loggerVars, storeVars, nOK, nFail, hist, last,
                   outboxVars, serverVars, rl, closed, held, sent>>

\* closeOnce: rl.Logger.CloseProtocol(rl.LogID), outside the mutex
CloseProto(g, now, f) ==
    /\ pc[g] = "proto"
    /\ Len(logs) < MaxIdx
    /\ MayFail(f)
    /\ LET res == CloseProtocol(commit.LogID, now, f)
       IN  /\ Commit(res)
           /\ last' = [Result("CloseProtocol", res.err) EXCEPT !.n = res.Index]
           /\ closeMsg' = IF res.err = "nil" THEN res.Tag ELSE closeMsg
           /\ held' = [held EXCEPT ![g] = res.Tag]
           /\ pc' = [pc EXCEPT ![g] = IF res.err = "nil" THEN "send" ELSE "idle"]
           /\ hist' = IF hist = "open" /\ res.err = "nil" THEN "closed" ELSE "other"
    /\ UNCHANGED <<cfgVars, wireVars, stepVars,
                   ioVars, commit, open, serverVars, rl, closed, calls, sent>>

\* closeOnce: rl.Transport.SendClosure(closeMsg), outside the mutex
CloseSend(g, ok) ==
    /\ pc[g] = "send"
    /\ sent' = Append(sent, held[g])
    /\ LET r == AcceptClosure(closures, held[g])
       IN  /\ closures' = IF ok THEN r.closures ELSE closures
           /\ pc' = [pc EXCEPT ![g] = IF ok /\ r.err = "nil" THEN "mark" ELSE "idle"]
    /\ UNCHANGED <<cfgVars, wireVars, stepVars,
                   ioVars, loggerVars, storeVars, nOK, nFail, hist, last,
                   outboxVars, commitments, opens, rl, closed, held, calls>>

\* closeOnce, second critical section: closed = true
CloseMark(g) ==
    /\ pc[g] = "mark"
    /\ closed' = TRUE
    /\ pc' = [pc EXCEPT ![g] = "idle"]
    /\ UNCHANGED <<cfgVars, wireVars, stepVars,
                   ioVars, loggerVars, storeVars, nOK, nFail, hist, last,
                   outboxVars, serverVars, rl, held, calls, sent>>

(***************************************************************************)
(* The Store interface, called directly on a fileStore (logs, anchors,    *)
(* tail) and a sqliteStore (dbLogs, dbAnchors, dbTail) with the same       *)
(* arguments.                                                              *)
(***************************************************************************)
\* indices a caller asks AnchorAt and Iter for
AskIdxs == 0 .. (MaxIdx + 1)

\* what the read calls of a fileStore return
fileView(recs, ancs, tl) ==
    [Iter |-> [k \in AskIdxs |-> Iter(recs, k)],
     Tail |-> StoreTail(tl),
     AnchorAt |-> [k \in AskIdxs |-> fileAnchorAt(ancs, k)],
     ListAnchors |-> fileListAnchors(ancs)]

\* what the read calls of a sqliteStore return
sqliteView(recs, ancs, tl) ==
    [Iter |-> [k \in AskIdxs |-> Iter(recs, k)],
     Tail |-> StoreTail(tl),
     AnchorAt |-> [k \in AskIdxs |-> sqliteAnchorAt(ancs, k)],
     ListAnchors |-> sqliteListAnchors(ancs)]

\* the record, tail and anchor a caller hands to Store.Append: any record
\* index, a tail for index tlIdx, no anchor or an anchor for index aIdx whose
\* key differs from call to call
CallArgs(idx, tlIdx, aIdx) ==
    LET tag == htag(Sum256(<<PutUint64(idx)>>))
    IN  [r |-> [Index |-> idx, TS |-> 1, Msg |-> <<97>>, TagV |-> tag, TagT |-> Zero],
         tail |-> [ok |-> TRUE, Index |-> tlIdx, TagV |-> tag, TagT |-> Zero],
         anchor |-> IF aIdx = 0 THEN NoAnchor
                    ELSE [ok |-> TRUE, Index |-> aIdx, Key |-> Sum256(<<PutUint64(idx)>>),
                          TagV |-> tag, TagT |-> Zero]]

\* A call that neither store took (rejected, or failed before any write)
\* changes nothing but the record of the last call: the calls that follow it
\* reach no store state that is not reached without it, so every call starts
\* from the result state of a call that changed a store.
Settled == last.err3 # "unchanged"

\* Store.Append(r, tail, anchor) on both stores; f names the step that fails
DoStoreAppend(idx, aIdx, f) ==
    /\ Settled
    /\ Len(logs) < MaxIdx
    /\ Len(dbLogs) < MaxIdx
    /\ MayFail(f)
    /\ LET c == CallArgs(idx, idx, aIdx)
           fr == fileAppend(logs, anchors, tail, c.r, c.tail, c.anchor, f)
           sr == sqliteAppend(dbLogs, dbAnchors, dbTail, c.r, c.tail, c.anchor, f)
       IN  /\ logs' = fr.logs
           /\ anchors' = fr.anchors
           /\ tail' = fr.tail
           /\ dbLogs' = sr.logs
           /\ dbAnchors' = sr.anchors
           /\ dbTail' = sr.tail
           /\ call' = c
           /\ last' = [Result("StoreAppend", fr.err) EXCEPT
                           !.err2 = sr.err, !.n = idx,
                           !.err3 = IF /\ <<fr.logs, fr.anchors, fr.tail>> = <<logs, anchors, tail>>
                                       /\ <<sr.logs, sr.anchors, sr.tail>> = <<dbLogs, dbAnchors, dbTail>>
                                    THEN "unchanged" ELSE "changed"]
           /\ nFail' = IF "io error" \in {fr.err, sr.err} THEN nFail + 1 ELSE nFail
           /\ anchorOff' = IF Len(fr.anchors) > Len(anchors) THEN Len(fr.anchors)
                            ELSE anchorOff
           /\ tailOff' = IF fr.err = "nil" THEN 1
                          ELSE IF Len(fr.logs) = Len(logs) THEN tailOff
                          ELSE IF f = "tailWrite" THEN 0
                          ELSE IF f = "tailSync" THEN 1
                          ELSE tailOff
    /\ UNCHANGED <<cfgVars, wireVars, stepVars,
                   loggerVars, nOK, hist, outboxVars, serverVars, rlVars,
                   rd, it>>

(***************************************************************************)
(* The fileStore step by step: readers share the descriptors s.tailFile    *)
(* and s.anchorFile (one file offset each) under mu.RLock; Append runs     *)
(* under mu.Lock; the producer goroutine of Iter reads its own descriptor  *)
(* without any lock.                                                       *)
(***************************************************************************)
\* mu.Lock can be taken: no reader holds mu.RLock
NoReaderInside == \A g \in Readers : rd[g].pc = "idle"

\* fileStore.Append(r, tail, anchor) of the next record, without I/O failure;
\* writeAnchorLocked and writeTailLocked leave the shared offsets at the end
FileAppendStep(aIdx) ==
    /\ NoReaderInside
    /\ Len(logs) < MaxIdx
    /\ LET idx == getLastIndexLocked(logs) + 1
           c == CallArgs(idx, idx, aIdx)
           fr == fileAppend(logs, anchors, tail, c.r, c.tail, c.anchor, "none")
       IN  /\ logs' = fr.logs
           /\ anchors' = fr.anchors
           /\ tail' = fr.tail
           /\ call' = c
           /\ last' = [Result("StoreAppend", fr.err) EXCEPT !.n = idx]
           /\ anchorOff' = IF c.anchor.ok THEN Len(fr.anchors) ELSE anchorOff
           /\ tailOff' = 1
    /\ UNCHANGED <<cfgVars, wireVars, stepVars,
                   loggerVars, nOK, nFail, hist, outboxVars, serverVars,
                   rlVars, dbLogs, dbAnchors, dbTail, rd, it>>

ReadOps == {"Tail", "AnchorAt", "ListAnchors"}

\* what the call returns when no other reader runs
Alone(op, arg) ==
    CASE op = "Tail" -> StoreTail(tail)
      [] op = "AnchorAt" -> fileAnchorAt(anchors, arg)
      [] OTHER -> fileListAnchors(anchors)

\* a reader enters Tail(), AnchorAt(arg) or ListAnchors(): mu.RLock
ReadBegin(g, op, arg) ==
    /\ rd[g].pc = "idle"
    /\ rd[g].calls < MaxReads
    /\ op = "AnchorAt" \/ arg = 0
    /\ rd' = [rd EXCEPT ![g] = [pc |-> "seek", op |-> op, arg |-> arg, acc |-> <<>>,
                                res |-> <<>>, calls |-> @.calls + 1]]
    /\ UNCHANGED <<cfgVars, wireVars, stepVars,
                   loggerVars, storeVars, nOK, nFail, hist, last, outboxVars,
                   serverVars, rlVars, dbLogs, dbAnchors, dbTail, call,
                   tailOff, anchorOff, it>>

\* Seek(0, io.SeekStart) on the shared descriptor
ReadSeek(g) ==
    /\ rd[g].pc = "seek"
    /\ rd' = [rd EXCEPT ![g].pc = "read"]
    /\ IF rd[g].op = "Tail"
       THEN tailOff' = 0 /\ UNCHANGED anchorOff
       ELSE anchorOff' = 0 /\ UNCHANGED tailOff
    /\ UNCHANGED <<cfgVars, wireVars, stepVars,
                   loggerVars, storeVars, nOK, nFail, hist, last, outboxVars,
                   serverVars, rlVars, dbLogs, dbAnchors, dbTail, call, it>>

\* readTailLocked: io.ReadFull of one tail entry at the shared offset; at the
\* end of the file it reports (tail, false, nil)
ReadTailStep(g) ==
    /\ rd[g].pc = "read"
    /\ rd[g].op = "Tail"
    /\ IF tailOff = 0 /\ tail.ok
       THEN /\ tailOff' = 1
            /\ rd' = [rd EXCEPT ![g].pc = "idle", ![g].res = tail]
       ELSE /\ UNCHANGED tailOff
            /\ rd' = [rd EXCEPT ![g].pc = "idle", ![g].res = NoTail]
    /\ UNCHANGED <<cfgVars, wireVars, stepVars,
                   loggerVars, storeVars, nOK, nFail, hist, last, outboxVars,
                   serverVars, rlVars, dbLogs, dbAnchors, dbTail, call, anchorOff, it>>

\* readAnchorLocked / ListAnchors: the bufio.Reader fills its buffer with the
\* entries between the shared offset and the end of anchors.idx and the loop
\* consumes them; an empty fill is io.EOF
ReadAnchorStep(g) ==
    /\ rd[g].pc = "read"
    /\ rd[g].op \in {"AnchorAt", "ListAnchors"}
    /\ LET chunk == SubSeq(anchors, anchorOff + 1, Len(anchors))
           hit == fileAnchorAt(chunk, rd[g].arg)
       IN  /\ anchorOff' = Len(anchors)
           /\ rd' = [rd EXCEPT ![g] =
                  IF rd[g].op = "AnchorAt"
                  THEN IF chunk = <<>> THEN [@ EXCEPT !.pc = "idle", !.res = NoAnchor]
                       ELSE IF hit.ok THEN [@ EXCEPT !.pc = "idle", !.res = hit]
                       ELSE @
                  ELSE IF chunk = <<>> THEN [@ EXCEPT !.pc = "idle", !.res = rd[g].acc]
                       ELSE [@ EXCEPT !.acc = @ \o chunk]]
    /\ UNCHANGED <<cfgVars, wireVars, stepVars,
                   loggerVars, storeVars, nOK, nFail, hist, last, outboxVars,
                   serverVars, rlVars, dbLogs, dbAnchors, dbTail, call, tailOff, it>>

\* fileStore.Iter(startIdx): os.Open under mu.RLock, the channel and the
\* producer goroutine are created
IterOpen(startIdx) ==
    /\ it.pc = "none"
    /\ it' = [NoIter EXCEPT !.pc = "top", !.startIdx = startIdx, !.n0 = Len(logs)]
    /\ UNCHANGED <<cfgVars, wireVars, stepVars,
                   loggerVars, storeVars, nOK, nFail, hist, last, outboxVars,
                   serverVars, rlVars, dbLogs, dbAnchors, dbTail, call,
                   tailOff, anchorOff, rd>>

\* the producer at the top of its loop: return if done is closed; read the
\* next record through the bufio.Reader (a fill takes what logs.dat holds
\* beyond the iterator's own offset at that moment); return at io.EOF
ProducerNext ==
    /\ it.pc = "top"
    /\ LET fill == it.buf = <<>>
           avail == IF fill THEN SubSeq(logs, it.off + 1, Len(logs)) ELSE it.buf
           off2 == IF fill THEN Len(logs) ELSE it.off
       IN  it' = IF it.done \/ avail = <<>>
                 THEN [it EXCEPT !.pc = "closed"]
                 ELSE IF Head(avail).Index >= it.startIdx
                      THEN [it EXCEPT !.pc = "send", !.pend = <<Head(avail)>>,
                                      !.buf = Tail(avail), !.off = off2]
                      ELSE [it EXCEPT !.buf = Tail(avail), !.off = off2]
    /\ UNCHANGED <<cfgVars, wireVars, stepVars,
                   loggerVars, storeVars, nOK, nFail, hist, last, outboxVars,
                   serverVars, rlVars, dbLogs, dbAnchors, dbTail, call,
                   tailOff, anchorOff, rd>>

\* out <- Record{...}: blocks while the channel is full
ProducerSend ==
    /\ it.pc = "send"
    /\ Len(it.out) < ChanCap
    /\ it' = [it EXCEPT !.pc = "top", !.out = @ \o it.pend, !.pend = <<>>]
    /\ UNCHANGED <<cfgVars, wireVars, stepVars,
                   loggerVars, storeVars, nOK, nFail, hist, last, outboxVars,
                   serverVars, rlVars, dbLogs, dbAnchors, dbTail, call,
                   tailOff, anchorOff, rd>>

\* the consumer receives one record from the channel
ConsumerRecv ==
    /\ it.out # <<>>
    /\ it' = [it EXCEPT !.out = Tail(@), !.got = @ \o <<Head(it.out)>>]
    /\ UNCHANGED <<cfgVars, wireVars, stepVars,
                   loggerVars, storeVars, nOK, nFail, hist, last, outboxVars,
                   serverVars, rlVars, dbLogs, dbAnchors, dbTail, call,
                   tailOff, anchorOff, rd>>

\* the cleanup function Iter returned: close(done)
IterCleanup ==
    /\ it.pc # "none"
    /\ ~it.done
    /\ it' = [it EXCEPT !.done = TRUE]
    /\ UNCHANGED <<cfgVars, wireVars, stepVars,
                   loggerVars, storeVars, nOK, nFail, hist, last, outboxVars,
                   serverVars, rlVars, dbLogs, dbAnchors, dbTail, call,
                   tailOff, anchorOff, rd>>

(***************************************************************************)
(* The HTTP Server of T: net/http runs every request in a goroutine of its *)
(* own; the handlers call the TrustedServer methods directly (Server.mu is *)
(* taken by RegisterStore only, TrustedServer has no lock).                *)
(***************************************************************************)
HandlerOps == {"HandleRegister", "HandleOpen", "HandleClose", "HandleVerify"}

\* the maps the TrustedServer method called by the handler reads: AcceptClosure
\* looks the log up in commitments, FinalVerify looks it up in all three
MapReads(op) ==
    CASE op = "HandleClose" -> {"commitments"}
      [] op = "HandleVerify" -> {"commitments", "opens", "closures"}
      [] OTHER -> {}

\* the maps it assigns to: RegisterLog, RegisterOpen, and AcceptClosure of a
\* registered log
MapWrites(op) ==
    CASE op = "HandleRegister" -> {"commitments"}
      [] op = "HandleOpen" -> {"opens"}
      [] op = "HandleClose" -> IF commitments[closeMsg.LogID].ok THEN {"closures"} ELSE {}
      [] OTHER -> {}

\* two methods that touch one map, one of them assigning to it
Conflict(op1, op2) ==
    \/ MapWrites(op1) \cap (MapReads(op2) \cup MapWrites(op2)) # {}
    \/ MapWrites(op2) \cap MapReads(op1) # {}

\* handler g is inside its TrustedServer method while another handler is
\* inside a method that conflicts with it
Racing(g) ==
    \E h \in Handlers \ {g} : hs[h].pc = "inMethod" /\ Conflict(hs[g].op, hs[h].op)

\* a handler has decoded its request (the message U sent last, or the stored
\* records) and enters the TrustedServer method
HandlerEnter(g, op) ==
    /\ Quiescent
    /\ hs[g].pc = "idle"
    /\ op = "HandleRegister" => commit.ok
    /\ op = "HandleOpen" => open.ok
    /\ op = "HandleClose" => closeMsg.ok
    /\ hs' = [hs EXCEPT ![g] = [pc |-> "inMethod", op |-> op]]
    /\ UNCHANGED <<cfgVars, wireVars, ap, vf, ioVars, loggerVars, storeVars, nOK, nFail,
                   hist, last, outboxVars, serverVars, rlVars>>

\* the method returns and the handler writes its response.  Unsynchronised
\* access to a Go map by two goroutines, one of them writing, is a data
\* race: the access completes, or the runtime stops the process ("fatal
\* error: concurrent map writes" / "concurrent map read and map write").
HandlerLeave(g, fatal) ==
    /\ Quiescent
    /\ hs[g].pc = "inMethod"
    /\ fatal => Racing(g)
    /\ LET op == hs[g].op
           done(x) == ~fatal /\ op = x
       IN  /\ commitments' = IF done("HandleRegister")
                             THEN [commitments EXCEPT ![commit.LogID] = commit]
                             ELSE commitments
           /\ opens' = IF done("HandleOpen") THEN [opens EXCEPT ![open.LogID] = open]
                       ELSE opens
           /\ closures' = IF done("HandleClose")
                          THEN AcceptClosure(closures, closeMsg).closures
                          ELSE closures
           /\ hs' = IF fatal THEN [h \in Handlers |-> [pc |-> "dead", op |-> hs[h].op]]
                    ELSE [hs EXCEPT ![g] = NoRequest]
    /\ UNCHANGED <<cfgVars, wireVars, ap, vf, ioVars, loggerVars, storeVars, nOK, nFail,
                   hist, last, outboxVars, rlVars>>

(***************************************************************************)
(* fileStore.Append statement by statement, with what a power loss leaves: *)
(* a write reaches the file at once and the disk at the next Sync of that  *)
(* file; until then a power loss may keep it or lose it.                   *)
(***************************************************************************)
NextIO_noLogSync(st, hasAnchor) ==
    CASE st \in {"write", "sync"} -> IF hasAnchor THEN "anchor" ELSE "truncate"
      [] st = "anchor" -> "anchorSync"
      [] st = "anchorSync" -> "truncate"
      [] st = "truncate" -> "tailWrite"
      [] st = "tailWrite" -> "tailSync"
      [] OTHER -> "idle"

\* the I/O statement that follows statement st in fileStore.Append:
\* logFile.Write, logFile.Sync, then writeAnchorLocked (Write, Sync) when an
\* anchor is given, then writeTailLocked (Truncate, Write, Sync)
NextIO(st, hasAnchor) ==
    CASE st = "write" -> "sync"
      [] st = "sync" -> IF hasAnchor THEN "anchor" ELSE "truncate"
      [] st = "anchor" -> "anchorSync"
      [] st = "anchorSync" -> "truncate"
      [] st = "truncate" -> "tailWrite"
      [] st = "tailWrite" -> "tailSync"
      [] OTHER -> "idle"

\* fileStore.Append(r, tail, anchor) of the next record is entered: mu.Lock,
\* getLastIndexLocked, the contiguity check and Flock pass
DiskAppendBegin(aIdx) ==
    /\ ap.pc = "idle"
    /\ NoReaderInside
    /\ Len(logs) < MaxIdx
    /\ LET idx == getLastIndexLocked(logs) + 1
       IN  call' = CallArgs(idx, idx, aIdx)
    /\ ap' = [ap EXCEPT !.pc = "write"]
    /\ UNCHANGED <<cfgVars, wireVars, vf, hs, loggerVars, storeVars, nOK, nFail, hist,
                   last, outboxVars, serverVars, rlVars, dbLogs, dbAnchors, dbTail,
                   tailOff, anchorOff, rd, it>>

\* the next I/O statement of the Append in progress: it succeeds (ok), or it
\* fails and Append returns its error at once
DiskAppendIO(ok) ==
    /\ ap.pc # "idle"
    /\ ~ok => nFail < MaxFail
    /\ LET st == ap.pc
           nxt == IF ok THEN NextIO(st, call.anchor.ok) ELSE "idle"
           did(x) == ok /\ st = x
       IN  /\ logs' = IF did("write") THEN Append(logs, call.r) ELSE logs
           /\ anchors' = IF did("anchor") THEN writeAnchorLocked(anchors, call.anchor)
                         ELSE anchors
           /\ tail' = IF did("truncate") THEN NoTail
                      ELSE IF did("tailWrite") THEN call.tail
                      ELSE tail
           /\ ap' = [pc |-> nxt,
                     dLogs |-> IF did("sync") THEN Len(logs) ELSE ap.dLogs,
                     dAnchors |-> IF did("anchorSync") THEN Len(anchors) ELSE ap.dAnchors,
                     tails |-> IF did("tailSync") THEN {tail} ELSE ap.tails \cup {tail'}]
           /\ last' = IF nxt = "idle"
                      THEN [Result("StoreAppend", IF ok THEN "nil" ELSE "io error")
                               EXCEPT !.n = call.r.Index, !.err3 = st]
                      ELSE last
           /\ nFail' = IF ok THEN nFail ELSE nFail + 1
           /\ anchorOff' = IF did("anchor") THEN Len(anchors') ELSE anchorOff
           /\ tailOff' = IF did("truncate") THEN 0
                         ELSE IF did("tailWrite") THEN 1
                         ELSE tailOff
    /\ UNCHANGED <<cfgVars, wireVars, vf, hs, loggerVars, nOK, hist, outboxVars,
                   serverVars, rlVars, dbLogs, dbAnchors, dbTail, call, rd, it>>

\* Power is lost at any statement and the store is opened again
\* (OpenFileStore): of each file survives what was synced, and any part of
\* what was written since
Crash ==
    \E m \in ap.dLogs .. Len(logs), a \in ap.dAnchors .. Len(anchors), t \in ap.tails :
       /\ logs' = SubSeq(logs, 1, m)
       /\ anchors' = SubSeq(anchors, 1, a)
       /\ tail' = t
       /\ ap' = [pc |-> "idle", dLogs |-> m, dAnchors |-> a, tails |-> {t}]
       /\ last' = [Result("Crash", "nil") EXCEPT !.n = m, !.err3 = ap.pc]
       /\ tailOff' = 0
       /\ anchorOff' = 0
       /\ UNCHANGED <<cfgVars, wireVars, vf, hs, loggerVars, nOK, nFail, hist,
                      outboxVars, serverVars, rlVars, dbLogs, dbAnchors, dbTail,
                      call, rd, it>>

(***************************************************************************)
(* The conversions applied to native values and to structured messages.    *)
(***************************************************************************)
\* 32-byte values, instants, identifiers and numbers the messages carry
ConvKeys == {Zero, <<"seedA">>, htag(Zero)}
ConvTimes == {[sec |-> 0, nsec |-> 0, loc |-> "UTC"],
              [sec |-> 1, nsec |-> 999999999, loc |-> "Local"],
              ZeroTime}
ConvLogIDs == {"", "log1"}
ConvNums == {0, MaxIdx}

NativeRecords ==
    [Index : ConvNums, TS : {0 - 1, 1}, Msg : {<<>>, <<97>>},
     TagV : ConvKeys, TagT : ConvKeys]
NativeInitCommitments ==
    [LogID : ConvLogIDs, StartTime : ConvTimes, KeyA0 : ConvKeys, KeyB0 : ConvKeys,
     UpdateFreq : ConvNums]
NativeOpenMessages ==
    [LogID : ConvLogIDs, OpenTime : ConvTimes, FirstIndex : ConvNums,
     FirstTagV : ConvKeys, FirstTagT : ConvKeys]
NativeCloseMessages ==
    [LogID : ConvLogIDs, CloseTime : ConvTimes, FinalIndex : ConvNums,
     FinalTagV : ConvKeys, FinalTagT : ConvKeys]

\* bytes fields as they arrive: nil, one byte short, one byte long, 32 bytes
BadBytes == {[len |-> 0, data |-> <<>>],
             [len |-> KeySize - 1, data |-> <<"short">>],
             [len |-> KeySize + 1, data |-> <<"long">>]}
WireBytes == BadBytes \cup {Slice32(Zero), Slice32(<<"seedA">>)}
WireTimes == {[ok |-> FALSE, Seconds |-> 0, Nanos |-> 0],
              [ok |-> TRUE, Seconds |-> 1, Nanos |-> 5]}

WireRecords ==
    [Index : {1}, Ts : {1}, Msg : {<<97>>}, TagV : WireBytes, TagT : WireBytes]
WireInitCommitments ==
    [LogId : {"log1"}, StartTime : WireTimes, KeyA0 : WireBytes, KeyB0 : WireBytes,
     UpdateFreq : {1}]
WireOpenMessages ==
    [LogId : {"log1"}, OpenTime : WireTimes, FirstIndex : {1},
     FirstTagV : WireBytes, FirstTagT : WireBytes]
WireCloseMessages ==
    [LogId : {"log1"}, CloseTime : WireTimes, FinalIndex : {1},
     FinalTagV : WireBytes, FinalTagT : WireBytes]

\* the records of a batch: a valid one and two invalid ones
BatchRecords ==
    {p \in WireRecords : /\ p.TagV \in {Slice32(Zero), [len |-> 0, data |-> <<>>]}
                         /\ p.TagT \in {Slice32(Zero), [len |-> KeySize + 1, data |-> <<"long">>]}
                         /\ (p.TagV.len = KeySize \/ p.TagT.len = KeySize)}
Batches == UNION {[1 .. n -> BatchRecords] : n \in 0 .. MaxBatch}

\* the record of a conversion: what went in and what came out
Converted(op, kind, in, res) ==
    [op |-> op, kind |-> kind, in |-> in, out |-> res.val, err |-> res.err]

\* FromProtoX(ToProtoX(x)) on a native value
RoundTripRecord(r) ==
    /\ wire' = Converted("RoundTrip", "Record", r, FromProtoRecord(ToProtoRecord(r)))
    /\ UNCHANGED convFrame

RoundTripInitCommitment(c) ==
    /\ wire' = Converted("RoundTrip", "InitCommitment", c,
                         FromProtoInitCommitment(ToProtoInitCommitment(c)))
    /\ UNCHANGED convFrame

RoundTripOpenMessage(o) ==
    /\ wire' = Converted("RoundTrip", "OpenMessage", o,
                         FromProtoOpenMessage(ToProtoOpenMessage(o)))
    /\ UNCHANGED convFrame

RoundTripCloseMessage(c) ==
    /\ wire' = Converted("RoundTrip", "CloseMessage", c,
                         FromProtoCloseMessage(ToProtoCloseMessage(c)))
    /\ UNCHANGED convFrame

\* FromProtoX on a structured message as it arrived
DecodeRecord(p) ==
    /\ wire' = Converted("Decode", "Record", p, FromProtoRecord(p))
    /\ UNCHANGED convFrame

DecodeInitCommitment(p) ==
    /\ wire' = Converted("Decode", "InitCommitment", p, FromProtoInitCommitment(p))
    /\ UNCHANGED convFrame

DecodeOpenMessage(p) ==
    /\ wire' = Converted("Decode", "OpenMessage", p, FromProtoOpenMessage(p))
    /\ UNCHANGED convFrame

DecodeCloseMessage(p) ==
    /\ wire' = Converted("Decode", "CloseMessage", p, FromProtoCloseMessage(p))
    /\ UNCHANGED convFrame

DecodeRecords(ps) ==
    /\ wire' = Converted("Decode", "Records", ps, FromProtoRecords(ps))
    /\ UNCHANGED convFrame

Next ==
    \/ \E msg \in Msgs, ts \in TSs, f \in FailPoints \cup {"none"} : DoAppend(msg, ts, f)
    \/ \E ts \in TSs, f \in FailPoints \cup {"none"} : DoClose(ts, f)
    \/ DoVerify
    \/ \E pos \in 1 .. MaxIdx, field \in FieldNames :
          \E val \in TamperValues(field) : DoVerifyTampered(pos, field, val)
    \/ \E a \in KnownAnchors : DoVerifyFromAnchor(a)
    \/ DoVerifyAll
    \/ \E m \in 0 .. MaxIdx, a \in KnownAnchors : DoVerifyTruncated(m, a)

Spec == Init /\ [][Next]_vars

\* the protocol driven by one logger and the messages it hands to T
NextProto ==
    \/ \E id \in LogIDs, now \in TSs, f \in FailPoints \cup {"none"} :
          DoInitProtocol(id, now, f)
    \/ \E msg \in Msgs, ts \in TSs, f \in FailPoints \cup {"none"} : DoAppend(msg, ts, f)
    \/ \E id \in LogIDs, now \in TSs, f \in FailPoints \cup {"none"} :
          DoCloseProtocol(id, now, f)
    \/ RegisterLog(commit)
    \/ RegisterOpen(open)
    \/ DoAcceptClosure(closeMsg)
    \/ \E id \in LogIDs : DoFinalVerify(id)

SpecProto == Init /\ [][NextProto]_vars

\* the protocol on a store that does not fail, the records handed to T over
\* a Transport, and the verifier V rewriting the V-chain
NextWire ==
    \/ \E id \in LogIDs, now \in TSs : DoInitProtocol(id, now, "none")
    \/ \E msg \in Msgs, ts \in TSs : DoAppend(msg, ts, "none")
    \/ \E id \in LogIDs, now \in TSs : DoCloseProtocol(id, now, "none")
    \/ RegisterLog(commit)
    \/ RegisterOpen(open)
    \/ DoAcceptClosure(closeMsg)
    \/ \E transport \in Transports, id \in LogIDs, dirExists \in BOOLEAN :
          DoSendLogFile(transport, id, dirExists)
    \/ \E id \in LogIDs, pos \in 1 .. MaxIdx, field \in {"Msg", "TS"} :
          \E val \in TamperValues(field) : DoVerifyForged(id, pos, field, val)
    \/ \E id \in LogIDs : DoVerifyLog(id, 0, "Msg", <<>>)
    \/ \E id \in LogIDs, pos \in 1 .. MaxIdx, field \in FieldNames :
          \E val \in TamperValues(field) : DoVerifyLog(id, pos, field, val)

SpecWire == Init /\ [][NextWire]_vars

\* one RemoteLogger used by the goroutines in Procs
NextRemote ==
    \/ \E id \in LogIDs, now \in TSs, f \in FailPoints \cup {"none"} :
          \E okCommit \in BOOLEAN, okOpen \in BOOLEAN :
             DoNewRemoteLogger(id, now, f, okCommit, okOpen)
    \/ \E msg \in Msgs, ts \in TSs, f \in FailPoints \cup {"none"} :
          DoRemoteAppend(msg, ts, f)
    \/ \E g \in Procs : CloseEnter(g)
    \/ \E g \in Procs, now \in TSs, f \in FailPoints \cup {"none"} : CloseProto(g, now, f)
    \/ \E g \in Procs, ok \in BOOLEAN : CloseSend(g, ok)
    \/ \E g \in Procs : CloseMark(g)

SpecRemote == Init /\ [][NextRemote]_vars

\* two empty stores; no logger is involved
InitStore ==
    /\ Init
    /\ backend = "file"
    /\ AnchorEvery = 0
    /\ a0 = Zero

NextStore ==
    \E idx \in AskIdxs, aIdx \in 0 .. 2, f \in FailPoints \cup {"none"} :
       DoStoreAppend(idx, aIdx, f)

SpecStore == InitStore /\ [][NextStore]_vars

\* one writer and the readers of one fileStore
NextFile ==
    \/ \E aIdx \in 0 .. 2 : FileAppendStep(aIdx)
    \/ \E g \in Readers, op \in ReadOps, arg \in 0 .. 2 : ReadBegin(g, op, arg)
    \/ \E g \in Readers : ReadSeek(g)
    \/ \E g \in Readers : ReadTailStep(g)
    \/ \E g \in Readers : ReadAnchorStep(g)

SpecFile == InitStore /\ [][NextFile]_vars

\* one writer, one iterator and its consumer
NextIter ==
    \/ \E aIdx \in 0 .. 2 : FileAppendStep(aIdx)
    \/ \E startIdx \in 0 .. 2 : IterOpen(startIdx)
    \/ ProducerNext
    \/ ProducerSend
    \/ ConsumerRecv
    \/ IterCleanup

\* the Go scheduler keeps running the producer goroutine while it can take a
\* step; nothing is assumed of the consumer, the writer or the cleanup call
SpecIter ==
    /\ InitStore
    /\ [][NextIter]_vars
    /\ WF_vars(ProducerNext)
    /\ WF_vars(ProducerSend)

\* the protocol on a store that does not fail, and T verifying submissions
\* that differ from the stored records
NextSubmit ==
    \/ \E id \in LogIDs, now \in TSs : DoInitProtocol(id, now, "none")
    \/ \E msg \in Msgs, ts \in TSs : DoAppend(msg, ts, "none")
    \/ \E id \in LogIDs, now \in TSs : DoCloseProtocol(id, now, "none")
    \/ RegisterLog(commit)
    \/ \E o \in OpensSent : RegisterOpen(o)
    \/ \E c \in ClosuresSent : DoAcceptClosure(c)
    \/ \E id \in LogIDs : DoFinalVerifySubmitted(id)

\* FinalVerify reads neither the store implementation nor the anchors, and
\* it tests no key for being zero
InitSubmit ==
    /\ Init
    /\ backend = "file"
    /\ AnchorEvery = 0
    /\ a0 # Zero

SpecSubmit == InitSubmit /\ [][NextSubmit]_vars

\* a logger, and replays of either chain over what may reach a verifier in
\* place of the stored records, from the origin and from every record
NextChain ==
    \/ \E msg \in Msgs, ts \in TSs, f \in FailPoints \cup {"none"} : DoAppend(msg, ts, f)
    \/ \E k \in 0 .. MaxIdx, useVerifierChain \in BOOLEAN : DoVerifyChain(k, useVerifierChain)

SpecChain == InitSubmit /\ [][NextChain]_vars

\* one fileStore, its writer statement by statement, and power losses
NextDisk ==
    \/ \E aIdx \in 0 .. 2 : DiskAppendBegin(aIdx)
    \/ \E ok \in BOOLEAN : DiskAppendIO(ok)
    \/ Crash

SpecDisk == InitStore /\ [][NextDisk]_vars

\* a logger whose Appends all succeed, and a verifier on the same store
NextRace ==
    \/ \E msg \in Msgs, ts \in TSs : DoAppend(msg, ts, "none")
    \/ \E op \in VerifierOps, a \in KnownAnchors : VerifierIter(op, a)
    \/ VerifierTail

SpecRace == Init /\ [][NextRace]_vars

\* a logger that runs the protocol, and the requests served by T
NextServer ==
    \/ \E id \in LogIDs, now \in TSs : DoInitProtocol(id, now, "none")
    \/ \E msg \in Msgs, ts \in TSs : DoAppend(msg, ts, "none")
    \/ \E id \in LogIDs, now \in TSs : DoCloseProtocol(id, now, "none")
    \/ \E g \in Handlers, op \in HandlerOps : HandlerEnter(g, op)
    \/ \E g \in Handlers, fatal \in BOOLEAN : HandlerLeave(g, fatal)

SpecServer == InitSubmit /\ [][NextServer]_vars

\* the conversions, each applied to every input
NextConv ==
    \/ \E r \in NativeRecords : RoundTripRecord(r)
    \/ \E c \in NativeInitCommitments : RoundTripInitCommitment(c)
    \/ \E o \in NativeOpenMessages : RoundTripOpenMessage(o)
    \/ \E c \in NativeCloseMessages : RoundTripCloseMessage(c)
    \/ \E p \in WireRecords : DecodeRecord(p)
    \/ \E p \in WireInitCommitments : DecodeInitCommitment(p)
    \/ \E p \in WireOpenMessages : DecodeOpenMessage(p)
    \/ \E p \in WireCloseMessages : DecodeCloseMessage(p)
    \/ \E ps \in Batches : DecodeRecords(ps)

SpecConv == InitStore /\ [][NextConv]_vars

(***************************************************************************)
(* Properties of the logger, the store and the verifiers (Spec).           *)
(***************************************************************************)
AppendOps == {"Append", "Close"}

\* the largest Index among the stored records, 0 for an empty log
MaxRecordIndex ==
    IF Len(logs) = 0 THEN 0
    ELSE CHOOSE m \in {logs[k].Index : k \in 1 .. Len(logs)} :
            \A k \in 1 .. Len(logs) : logs[k].Index <= m

\* the largest Index among the given records, 0 for none
MaxIndexOf(recs) ==
    IF Len(recs) = 0 THEN 0
    ELSE CHOOSE m \in {recs[k].Index : k \in 1 .. Len(recs)} :
            \A k \in 1 .. Len(recs) : recs[k].Index <= m

\* C1: a Logger.Append that returns the store's error leaves i, keyV, keyT,
\* tagV and tagT as they were before the call.
C1_RollbackOnStoreError ==
    [][(last'.op \in AppendOps /\ last'.err # "nil")
         => (i' = i /\ keyV' = keyV /\ keyT' = keyT /\ tagV' = tagV /\ tagT' = tagT)]_vars

\* C4: whenever every stored record was written by a successful Append
\* (n >= 1 of them), VerifyFrom with A_0 and VerifyFromTrusted with B_0 from the
\* origin return no error and the tags of the stored tail.
C4_HonestLogVerifies ==
    (last.op = "Verify" /\ nOK >= 1 /\ Len(logs) = nOK)
        => /\ last.err = "nil"
           /\ last.err2 = "nil"
           /\ tail.ok
           /\ last.tag = tail.TagV
           /\ last.tag2 = tail.TagT

\* C5: in the state a successful Append leaves, after n successful Appends in
\* all, the tail is present, its Index is n and the largest record index, and
\* its tags are the tags LastState reports.
C5_TailMatchesLastState ==
    (last.op \in AppendOps /\ last.err = "nil")
        => /\ tail.ok
           /\ tail.Index = nOK
           /\ tail.Index = MaxRecordIndex
           /\ LastState.idx = nOK
           /\ tail.TagV = LastState.tagV
           /\ tail.TagT = LastState.tagT

\* two successful Appends around a failed one, then the state C5 speaks of
C5_Witness ==
    /\ last.op \in AppendOps
    /\ last.err = "nil"
    /\ nOK = 2
    /\ nFail = 1
    /\ tail.Index = 2

TamperErrors == {"ErrTagMismatch", "ErrGap"}

\* C6: after one field of one stored record was changed, VerifyFrom or
\* VerifyFromTrusted from the origin returns ErrTagMismatch or ErrGap.
C6_SingleChangeDetected ==
    last.op = "VerifyTampered"
        => (last.err \in TamperErrors \/ last.err2 \in TamperErrors)

\* a change only the T-chain notices: the V-chain replay still succeeds
C6_Witness ==
    /\ last.op = "VerifyTampered"
    /\ last.err = "nil"
    /\ last.err2 = "ErrTagMismatch"
    /\ Len(logs) >= 2

\* the stored log verifies on both chains against the stored tail
VerifiedLog ==
    /\ Len(logs) >= 1
    /\ SemiVerifyFromAnchor(logs, tail, OriginAnchor) = "nil"
    /\ VerifyAll(logs, tail, b0) = "nil"

\* C7: with a non-empty suffix of a verified log deleted and the tail left in
\* place, VerifyFromAnchor (from the origin or a stored anchor) and VerifyAll
\* return ErrTagMismatch, and the replayed V tag is not the tail's TagV.
C7_TruncationDetected ==
    (last.op = "VerifyTruncated" /\ VerifiedLog)
        => /\ last.err = "ErrTagMismatch"
           /\ last.err2 = "ErrTagMismatch"
           /\ last.tag # tail.TagV

\* a verified log of three records cut back, verified from the anchor at 2
C7_Witness ==
    /\ last.op = "VerifyTruncated"
    /\ VerifiedLog
    /\ Len(logs) = 3
    /\ last.n = 2

\* C8: for a log of n >= 1 records written without any failed call,
\* VerifyFromAnchor succeeds from the origin anchor and from every stored
\* anchor, the one at the last index included.
C8_EveryAnchorVerifies ==
    (last.op = "VerifyFromAnchor" /\ nFail = 0 /\ AnchorEvery > 0 /\ Len(logs) >= 1)
        => last.err = "nil"

\* C20: every record the Logger stored has different TagV and TagT, whatever
\* seeds the Config supplied.
C20_TagsDiffer ==
    \A k \in 1 .. Len(logs) : logs[k].TagV # logs[k].TagT

\* every Append call, failed or not, evolves the keys once
MaxEvolutions == MaxIdx + MaxFail + 1

\* the T-chain keys B_0, B_1, ... the logger can have held
BKeys == {KeyAt(b0, n) : n \in 0 .. MaxEvolutions}

\* the 32-byte fields of the values the store holds
StoredFields ==
    {logs[k].TagV : k \in 1 .. Len(logs)} \cup {logs[k].TagT : k \in 1 .. Len(logs)}
    \cup {anchors[k].Key : k \in 1 .. Len(anchors)}
    \cup {anchors[k].TagV : k \in 1 .. Len(anchors)}
    \cup {anchors[k].TagT : k \in 1 .. Len(anchors)}
    \cup (IF tail.ok THEN {tail.TagV, tail.TagT} ELSE {})

\* C21: no 32-byte field of a Record, TailState or Anchor the Logger handed to
\* the store equals a T-chain key B_i; an Anchor's Key is never one.
C21_NoTKeyInStore == StoredFields \cap BKeys = {}

\* Store.AnchorAt(k) and Store.ListAnchors() of the backend the logger is
\* bound to
StoreAnchorAt(k) ==
    IF backend = "file" THEN fileAnchorAt(anchors, k) ELSE sqliteAnchorAt(anchors, k)

StoreListAnchors ==
    IF backend = "file" THEN fileListAnchors(anchors) ELSE sqliteListAnchors(anchors)

\* the multiples of N among 1 .. n; none for N = 0
MultiplesUpTo(N, n) == IF N = 0 THEN {} ELSE {j \in 1 .. n : j % N = 0}

\* C24: after n successful Appends with AnchorEvery = N, AnchorAt(j) is found
\* exactly for the multiples j of N in 1 .. n and ListAnchors has floor(n/N)
\* entries; with N = 0 the store holds no anchor.
C24_AnchorsAtMultiples ==
    /\ \A j \in AskIdxs : StoreAnchorAt(j).ok <=> j \in MultiplesUpTo(AnchorEvery, nOK)
    /\ Len(StoreListAnchors) = Cardinality(MultiplesUpTo(AnchorEvery, nOK))

\* C25: every stored anchor has a stored record of its index, and its TagV
\* and TagT are that record's TagV and TagT.
C25_AnchorTagsAreRecordTags ==
    \A k \in 1 .. Len(anchors) :
        /\ \E j \in 1 .. Len(logs) : logs[j].Index = anchors[k].Index
        /\ \A j \in 1 .. Len(logs) :
              logs[j].Index = anchors[k].Index
                  => (anchors[k].TagV = logs[j].TagV /\ anchors[k].TagT = logs[j].TagT)

\* an anchor at index 2 of a log of three records, written around a failed call
C25_Witness ==
    /\ Len(logs) = 3
    /\ Len(anchors) = 1
    /\ anchors[1].Index = 2
    /\ anchors[1].TagV = logs[2].TagV
    /\ nFail = 1
    /\ last.op \in AppendOps
    /\ last.err = "nil"

\* C27: GetInitialKeys returns the seeds before any Append and, after k >= 1
\* successful Appends, the seeds evolved k times, which are not the seeds.
C27_GetInitialKeysEvolved ==
    /\ (nOK = 0 /\ nFail = 0) => GetInitialKeys = <<a0, b0>>
    /\ nOK >= 1 => /\ GetInitialKeys = <<KeyAt(a0, nOK), KeyAt(b0, nOK)>>
                   /\ GetInitialKeys[1] # a0
                   /\ GetInitialKeys[2] # b0

\* C39: between calls, the Logger's index i is the largest index among the
\* stored records (0 for an empty store), whatever Appends succeeded or
\* failed before.
C39_LoggerInStep ==
    i = MaxRecordIndex

(***************************************************************************)
(* Properties of the protocol and the trusted server (SpecProto).          *)
(***************************************************************************)
\* C2: once CloseProtocol has succeeded, no record is added to the store: the
\* log ends at the index the CloseMessage names.
C2_NoRecordAfterClose ==
    closeMsg.ok => Len(logs) = closeMsg.FinalIndex

C23_AcceptClosureNeedsCommitment ==
    [][DoAcceptClosure(closeMsg)
         => IF ~commitments[closeMsg.LogID].ok
            THEN last'.err # "nil" /\ closures' = closures
            ELSE /\ last'.err = "nil"
                 /\ closures'[closeMsg.LogID] = closeMsg
                 /\ \A id \in LogIDs \ {closeMsg.LogID} : closures'[id] = closures[id]]_vars

\* the CloseMessage of a complete run was refused: T never got the commitment
C23_Witness ==
    /\ last.op = "AcceptClosure"
    /\ last.err = "unknown log ID"
    /\ hist = "closed"
    /\ closeMsg.ok
    /\ ~commitments[closeMsg.LogID].ok
    /\ ~closures[closeMsg.LogID].ok

\* InitProtocol was the first call on the logger and returned no error
InitReturned == last.op = "InitProtocol" /\ last.err = "nil" /\ hist = "open"

AllRegistered(id) ==
    /\ commit.ok /\ commitments[id] = commit
    /\ open.ok /\ opens[id] = open
    /\ closeMsg.ok /\ closures[id] = closeMsg

C10_NotClosedIsReported ==
    ( /\ last.op = "FinalVerify"
      /\ commitments[LogID].ok
      /\ opens[LogID].ok
      /\ OpeningCheck(commitments[LogID], opens[LogID], Iter(logs, 1)) = "nil"
      /\ ~closures[LogID].ok )
        => (last.err = "ErrLogNotClosed" /\ last.err # "ErrTagMismatch")

\* an open log with records after START and no closure at T
C10_Witness ==
    /\ last.op = "FinalVerify"
    /\ last.err = "ErrLogNotClosed"
    /\ ~closures[LogID].ok
    /\ Len(logs) >= 2

\* C11: when the holder of the A-chain keys changed Msg or TS of a record and
\* rewrote the TagV fields so that VerifyFrom from the origin succeeds,
\* VerifyFromTrusted from B_0 returns ErrTagMismatch and FinalVerify fails.
C11_ForgedVChainBreaksT ==
    (last.op = "VerifyForged" /\ last.err = "nil")
        => (last.err2 = "ErrTagMismatch" /\ last.err3 # "nil")

\* a closed and registered log whose middle record was changed; the T-chain
\* replay inside FinalVerify is what rejects it
C11_Witness ==
    /\ last.op = "VerifyForged"
    /\ last.err = "nil"
    /\ hist = "closed"
    /\ AllRegistered(LogID)
    /\ last.n = 2
    /\ last.err3 = "ErrTagMismatch"

\* C15: whichever Transport is used, SendLogFile returns true only if
\* FinalVerify of the submitted records passed.
C15_TrueOnlyIfVerified ==
    (last.op = "SendLogFile" /\ last.err2 = "true") => last.err = "nil"

\* C28: on the same commitment, open message, close message and records,
\* FolderTransport.VerifyLog returns nil exactly when FinalVerify returns nil.
C28_VerifyLogIsFinalVerify ==
    last.op = "VerifyLog" => (last.err = "nil" <=> last.err2 = "nil")

\* both accept the untouched log of a complete, registered run
C28_Witness ==
    /\ last.op = "VerifyLog"
    /\ last.n = 0
    /\ last.err = "nil"
    /\ last.err2 = "nil"
    /\ hist = "closed"
    /\ Len(logs) = 3

(***************************************************************************)
(* Properties of FinalVerify on submissions that differ from the stored    *)
(* records (SpecSubmit).                                                   *)
(***************************************************************************)
\* condition number k of the list of C32 on a submission for logID
Condition(k, logID, records) ==
    LET c == commitments[logID]
        o == opens[logID]
        cl == closures[logID]
        n == Len(records)
        firstV == VerifyFrom(SubSeq(records, 1, 1), 0, c.KeyA0, Zero)
        firstT == VerifyFromTrusted(SubSeq(records, 1, 1), 0, c.KeyB0, Zero)
        replay == VerifyFromTrusted(records, 0, c.KeyB0, Zero)
    IN  CASE k = 1 -> c.ok
          [] k = 2 -> o.ok
          [] k = 3 -> n > 0
          [] k = 4 -> records[1].Index = o.FirstIndex
          [] k = 5 -> records[1].Msg = START
          [] k = 6 -> firstV.err = "nil"
          [] k = 7 -> firstT.err = "nil"
          [] k = 8 -> firstV.tag = o.FirstTagV /\ firstT.tag = o.FirstTagT
          [] k = 9 -> cl.ok
          [] k = 10 -> records[n].Index = cl.FinalIndex
          [] k = 11 -> records[n].Msg = CLOSE
          [] k = 12 -> replay.err = "nil"
          [] OTHER -> replay.tag = cl.FinalTagT

\* the error FinalVerify reports for condition number k
ConditionError(k, logID, records) ==
    LET c == commitments[logID]
    IN  CASE k = 1 -> "log not registered with trusted server"
          [] k = 2 -> "log opening not registered with trusted server"
          [] k = 3 -> "no records to verify"
          [] k = 4 -> "opening index mismatch"
          [] k = 5 -> "missing opening message"
          [] k = 6 -> WrapOpeningV(VerifyFrom(SubSeq(records, 1, 1), 0, c.KeyA0, Zero).err)
          [] k = 7 -> WrapOpeningT(VerifyFromTrusted(SubSeq(records, 1, 1), 0, c.KeyB0, Zero).err)
          [] k = 8 -> "opening tag mismatch"
          [] k = 9 -> "ErrLogNotClosed"
          [] k = 10 -> "final index mismatch"
          [] k = 11 -> "missing proper closing message"
          [] k = 12 -> VerifyFromTrusted(records, 0, c.KeyB0, Zero).err
          [] OTHER -> "final T-chain tag mismatch"

RECURSIVE FirstViolated(_, _, _)
\* the error of the first condition from number k on that does not hold
FirstViolated(k, logID, records) ==
    IF k > 13 THEN "nil"
    ELSE IF ~Condition(k, logID, records) THEN ConditionError(k, logID, records)
    ELSE FirstViolated(k + 1, logID, records)

\* C32: FinalVerify returns the error of the first condition violated in the
\* order commitment registered, open registered, records non-empty, first
\* index, first body START, opening tags, closure registered, last index,
\* last body CLOSE, T-chain replay, final tag; nil if none is violated.
C32_FirstViolatedIsReported ==
    last.op = "FinalVerifySubmitted" => last.err = FirstViolated(1, LogID, subm)

\* a registered, closed log submitted with a wrong first index, a wrong first
\* body and a wrong last body: the first index is what is reported
C32_Witness ==
    /\ last.op = "FinalVerifySubmitted"
    /\ AllRegistered(LogID)
    /\ hist = "closed"
    /\ Len(subm) = 3
    /\ ~Condition(4, LogID, subm)
    /\ ~Condition(5, LogID, subm)
    /\ Condition(10, LogID, subm)
    /\ Condition(11, LogID, subm)
    /\ ~Condition(12, LogID, subm)
    /\ last.err = "opening index mismatch"

\* values a V-chain tag can be replaced by
OtherTags == {Zero, htag(Zero)}

\* submissions that differ from records in nothing but the TagV of records
\* other than the first: zeroed in any set of them, or replaced by another
\* tag in one of them
TagVVariants(records) ==
    {[k \in 1 .. Len(records) |->
         IF k \in S THEN [records[k] EXCEPT !.TagV = Zero] ELSE records[k]] :
       S \in SUBSET (2 .. Len(records))}
    \cup {[records EXCEPT ![k].TagV = htag(Zero)] : k \in 2 .. Len(records)}

ReplayRest == SubSeq(subm, last.n + 1, Len(subm))
ReplayOf(records) ==
    VerifyChain(records, last.n, ChainStart(last.n, last.err3 = "V").key,
                ChainStart(last.n, last.err3 = "V").tag, last.err3 = "V")

\* the lengths of the prefixes of the replayed records that do not verify
FailingAt ==
    {p \in 1 .. Len(ReplayRest) : ReplayOf(SubSeq(ReplayRest, 1, p)).err # "nil"}

C34_ReturnsPrev ==
    (last.op = "VerifyChain" /\ last.err = "nil")
        => last.tag = IF Len(ReplayRest) = 0
                      THEN ChainStart(last.n, last.err3 = "V").tag
                      ELSE IF last.err3 = "V" THEN ReplayRest[Len(ReplayRest)].TagV
                           ELSE ReplayRest[Len(ReplayRest)].TagT

\* C36: for stored records that verify from the origin, the replay of the
\* records after record k from (k, H^k(K_0), tag of record k), 0 <= k < n,
\* returns no error and the tag the replay from the origin returns; so on
\* both chains.
C36_ResumptionConsistent ==
    ( /\ last.op = "VerifyChain"
      /\ subm = Iter(logs, 1)
      /\ last.n < Len(logs)
      /\ last.err2 = "nil" )
        => (last.err = "nil" /\ last.tag = last.tag2)

\* the T-chain of three records resumed after the second
C36_Witness ==
    /\ last.op = "VerifyChain"
    /\ last.err3 = "T"
    /\ subm = Iter(logs, 1)
    /\ Len(logs) = 3
    /\ last.n = 2
    /\ last.err2 = "nil"
    /\ last.err = "nil"
    /\ last.tag = logs[3].TagT
    /\ ChainStart(2, FALSE).key = fwdKey(fwdKey(b0))

(***************************************************************************)
(* Properties of the Store implementations (SpecStore).                    *)
(***************************************************************************)
\* C12: a fileStore.Append that returns an error leaves the results of Iter,
\* Tail, AnchorAt and ListAnchors as they were before the call.
C12_FileAppendAllOrNothing ==
    [][(last'.op = "StoreAppend" /\ last'.err # "nil")
         => fileView(logs', anchors', tail') = fileView(logs, anchors, tail)]_vars

\* C13: sqliteStore.Append either returns nil with the record inserted, the
\* anchor (when given) upserted and the tail replaced, or returns an error
\* with the three tables unchanged.
C13_SqliteAppendAllOrNothing ==
    [][last'.op = "StoreAppend"
         => IF last'.err2 = "nil"
            THEN /\ dbLogs' = Append(dbLogs, call'.r)
                 /\ dbTail' = call'.tail
                 /\ call'.anchor.ok
                      => sqliteAnchorAt(dbAnchors', call'.anchor.Index) = call'.anchor
                 /\ \A k \in AskIdxs :
                      (~call'.anchor.ok \/ k # call'.anchor.Index)
                          => sqliteAnchorAt(dbAnchors', k) = sqliteAnchorAt(dbAnchors, k)
            ELSE /\ dbLogs' = dbLogs
                 /\ dbAnchors' = dbAnchors
                 /\ dbTail' = dbTail]_vars

\* a failed statement after two committed appends, the second one replacing
\* the anchor of the first
C13_Witness ==
    /\ last.op = "StoreAppend"
    /\ last.err2 = "io error"
    /\ Len(dbLogs) = 2
    /\ Len(dbAnchors) = 1
    /\ dbAnchors[1].Key = Sum256(<<PutUint64(2)>>)

\* the indices of the records are 1, 2, ..., n in order
Contiguous(recs) == \A k \in 1 .. Len(recs) : recs[k].Index = k

\* C14: Store.Append succeeds only for the record index that follows the
\* stored maximum, and after any successful and failed Append calls the
\* stored record indices are 1, 2, ..., n in order, on both stores.
C14_IndicesContiguous ==
    [][last'.op = "StoreAppend"
         => /\ last'.err = "nil" => call'.r.Index = MaxIndexOf(logs) + 1
            /\ last'.err2 = "nil" => call'.r.Index = MaxIndexOf(dbLogs) + 1
            /\ Contiguous(logs')
            /\ Contiguous(dbLogs')]_vars

\* both stores took a third record after rejected and failed calls
C14_Witness ==
    /\ last.op = "StoreAppend"
    /\ last.err = "nil"
    /\ last.err2 = "nil"
    /\ Len(logs) = 3
    /\ Len(dbLogs) = 3
    /\ nFail >= 1

\* C19: as long as no call was hit by an I/O failure, the file store and the
\* sqlite store return the same error from every Append and the same results
\* from Iter, Tail, AnchorAt and ListAnchors.
C19_BackendsIndistinguishable ==
    nFail = 0
        => /\ last.op = "StoreAppend" => last.err = last.err2
           /\ fileView(logs, anchors, tail) = sqliteView(dbLogs, dbAnchors, dbTail)

(***************************************************************************)
(* Properties of the fileStore under concurrency (SpecFile, SpecIter).     *)
(***************************************************************************)
\* C16: whatever other readers do meanwhile, a Tail, AnchorAt or ListAnchors
\* call returns what it returns when run alone on the same store.
C16_ReadersDoNotInterfere ==
    [][\A g \in Readers :
          (rd[g].pc = "read" /\ rd'[g].pc = "idle")
              => rd'[g].res = Alone(rd[g].op, rd[g].arg)]_vars

\* the records the iterator has handed out so far
Yielded == it.got \o it.out \o it.pend

\* C17: an iterator obtained when the store held n records yields only
\* records with index <= n.
C17_SnapshotAtStart ==
    \A k \in 1 .. Len(Yielded) : Yielded[k].Index <= it.n0

\* C18: once the cleanup function has been invoked, the producer eventually
\* terminates (closing the channel and the file), whatever the consumer does.
C18_CleanupStopsProducer ==
    it.done ~> (it.pc = "closed")

(***************************************************************************)
(* Properties of fileStore.Append on disk (SpecDisk).                      *)
(***************************************************************************)
\* the maximum index of the records that are durable in the log file
DurableMax == getLastIndexLocked(SubSeq(logs, 1, ap.dLogs))

\* the record of the Append in progress is in the log file and synced
RecordDurable ==
    /\ ap.dLogs = Len(logs)
    /\ Len(logs) > 0
    /\ logs[Len(logs)] = call.r

\* the anchor of the Append in progress, if any, is in the anchor file and
\* synced
AnchorDurable ==
    call.anchor.ok
        => /\ ap.dAnchors = Len(anchors)
           /\ Len(anchors) > 0
           /\ anchors[Len(anchors)].Index = call.anchor.Index
           /\ anchors[Len(anchors)].Key = call.anchor.Key

\* the tail slots a power loss can leave: the one in the file, and every
\* content the file has had since its last Sync
CrashTails == ap.tails \cup {tail}

\* C35: within one fileStore.Append the anchor is written only once the
\* record is durable, and the tail slot is touched only once the record and
\* the anchor (if any) are durable; so at every statement, and after every
\* power loss, a present tail advertises no index greater than the maximum
\* index of the records durable in the log file.
C35_DurableOrder ==
    /\ [](\A t \in CrashTails : t.ok => t.Index <= DurableMax)
    /\ [][/\ ap.pc # "idle" /\ Len(anchors') > Len(anchors) => RecordDurable
          /\ ap.pc # "idle" /\ ap'.pc # "idle" /\ tail' # tail
                => RecordDurable /\ AnchorDurable]_vars

\* power is lost in the middle of an Append with an anchor, after an earlier
\* Append completed: the new record survives, the tail is the earlier one
C35_Witness ==
    /\ last.op = "Crash"
    /\ last.err3 \in {"anchor", "anchorSync", "truncate", "tailWrite", "tailSync"}
    /\ ap.pc = "idle"
    /\ tail.ok
    /\ tail.Index < DurableMax

(***************************************************************************)
(* Properties of the verifiers beside a running logger (SpecRace).         *)
(***************************************************************************)
\* C37: a verifier that read at least one record of a log written by
\* successful Appends only returns nil, whatever Appends complete while it
\* runs.
C37_VerifiesBesideAppend ==
    (vf.pc = "returned" /\ last.n > 0) => last.err = "nil"

(***************************************************************************)
(* Properties of the HTTP Server of T (SpecServer).                        *)
(***************************************************************************)
\* C38: no two handlers are inside TrustedServer methods that touch the same
\* map with one of them writing it.
C38_MapAccessExclusive ==
    \A g, h \in Handlers :
       (g # h /\ hs[g].pc = "inMethod" /\ hs[h].pc = "inMethod")
           => ~Conflict(hs[g].op, hs[h].op)

(***************************************************************************)
(* Properties of the conversions (SpecConv).                               *)
(***************************************************************************)
\* x and y are equal in every field, times compared as instants
SameMessage(kind, x, y) ==
    CASE kind = "Record" -> x = y
      [] kind = "InitCommitment" ->
            /\ x.LogID = y.LogID
            /\ TimeEqual(x.StartTime, y.StartTime)
            /\ x.KeyA0 = y.KeyA0
            /\ x.KeyB0 = y.KeyB0
            /\ x.UpdateFreq = y.UpdateFreq
      [] kind = "OpenMessage" ->
            /\ x.LogID = y.LogID
            /\ TimeEqual(x.OpenTime, y.OpenTime)
            /\ x.FirstIndex = y.FirstIndex
            /\ x.FirstTagV = y.FirstTagV
            /\ x.FirstTagT = y.FirstTagT
      [] OTHER ->
            /\ x.LogID = y.LogID
            /\ TimeEqual(x.CloseTime, y.CloseTime)
            /\ x.FinalIndex = y.FinalIndex
            /\ x.FinalTagV = y.FinalTagV
            /\ x.FinalTagT = y.FinalTagT

\* C29: for every Record, InitCommitment, OpenMessage and CloseMessage x,
\* FromProtoX(ToProtoX(x)) returns no error and a value equal to x in every
\* field, times compared as instants.
C29_RoundTrip ==
    wire.op = "RoundTrip"
        => (wire.err = "nil" /\ SameMessage(wire.kind, wire.in, wire.out))

\* a commitment whose local time with nanoseconds came back in UTC
C29_Witness ==
    /\ wire.op = "RoundTrip"
    /\ wire.kind = "InitCommitment"
    /\ wire.in.StartTime.loc = "Local"
    /\ wire.in.StartTime.nsec = 999999999
    /\ wire.out.StartTime.loc = "UTC"
    /\ wire.in.KeyA0 = <<"seedA">>
    /\ wire.out.KeyA0 = <<"seedA">>
    /\ wire.in.KeyB0 = htag(Zero)

\* the 32-byte fields of a structured message of the given kind
SizedFields(kind, p) ==
    CASE kind = "Record" -> {p.TagV, p.TagT}
      [] kind = "InitCommitment" -> {p.KeyA0, p.KeyB0}
      [] kind = "OpenMessage" -> {p.FirstTagV, p.FirstTagT}
      [] OTHER -> {p.FinalTagV, p.FinalTagT}

\* the zero value of the native type of the given kind
ZeroOf(kind) ==
    CASE kind = "Record" -> ZeroRecord
      [] kind = "InitCommitment" -> ZeroInitCommitment
      [] kind = "OpenMessage" -> ZeroOpenMessage
      [] OTHER -> ZeroCloseMessage

C3_ClosureSentOnce == Len(sent) <= 1

====
